---- MODULE Spec2Model ----
(***************************************************************************)
(* Client-side reconstruction of the task / thought pipeline from the      *)
(* reasoning stream: the flow store and the animation scheduler of the     *)
(* lane page (src/unnamed/part_003), the events[] store of the interact    *)
(* page (src/apps/agui/app/page.tsx) and the reconnect controller.         *)
(***************************************************************************)
EXTENDS Integers, Sequences, FiniteSets, TLC

(***************************************************************************)
(* Bounds of the model.                                                    *)
(***************************************************************************)
\* number of stream frames handled in one behaviour
MaxFrames == 2

(***************************************************************************)
(* Strings.  TLA+ strings are atomic, so the strings whose characters the  *)
(* code inspects (toLowerCase, includes) are spelled out.                  *)
(***************************************************************************)
Chars(s) ==
  CASE s = "start_round" -> <<"s","t","a","r","t","_","r","o","u","n","d">>
    [] s = "gather_context" -> <<"g","a","t","h","e","r","_","c","o","n","t","e","x","t">>
    [] s = "perform_dmas" -> <<"p","e","r","f","o","r","m","_","d","m","a","s">>
    [] s = "snapshot_and_context" -> <<"s","n","a","p","s","h","o","t","_","a","n","d","_","c","o","n","t","e","x","t">>
    [] s = "perform_aspdma" -> <<"p","e","r","f","o","r","m","_","a","s","p","d","m","a">>
    [] s = "recursive_aspdma" -> <<"r","e","c","u","r","s","i","v","e","_","a","s","p","d","m","a">>
    [] s = "dma_results" -> <<"d","m","a","_","r","e","s","u","l","t","s">>
    [] s = "conscience_execution" -> <<"c","o","n","s","c","i","e","n","c","e","_","e","x","e","c","u","t","i","o","n">>
    [] s = "recursive_conscience" -> <<"r","e","c","u","r","s","i","v","e","_","c","o","n","s","c","i","e","n","c","e">>
    [] s = "aspdma_result" -> <<"a","s","p","d","m","a","_","r","e","s","u","l","t">>
    [] s = "finalize_action" -> <<"f","i","n","a","l","i","z","e","_","a","c","t","i","o","n">>
    [] s = "conscience_result" -> <<"c","o","n","s","c","i","e","n","c","e","_","r","e","s","u","l","t">>
    [] s = "perform_action" -> <<"p","e","r","f","o","r","m","_","a","c","t","i","o","n">>
    [] s = "action_complete" -> <<"a","c","t","i","o","n","_","c","o","m","p","l","e","t","e">>
    [] s = "round_complete" -> <<"r","o","u","n","d","_","c","o","m","p","l","e","t","e">>
    [] s = "action_result" -> <<"a","c","t","i","o","n","_","r","e","s","u","l","t">>
    [] s = "thought_start" -> <<"t","h","o","u","g","h","t","_","s","t","a","r","t">>
    [] s = "GATHER_CONTEXT" -> <<"G","A","T","H","E","R","_","C","O","N","T","E","X","T">>
    [] s = "gather_context_v2" -> <<"g","a","t","h","e","r","_","c","o","n","t","e","x","t","_","v","2">>
    [] s = "unknown_step" -> <<"u","n","k","n","o","w","n","_","s","t","e","p">>
    [] s = "event:" -> <<"e","v","e","n","t",":">>
    [] s = "data:" -> <<"d","a","t","a",":">>
    [] s = "step_update" -> <<"s","t","e","p","_","u","p","d","a","t","e">>
    [] s = "keepalive" -> <<"k","e","e","p","a","l","i","v","e">>
    [] s = "connected" -> <<"c","o","n","n","e","c","t","e","d">>
    [] s = "error" -> <<"e","r","r","o","r">>

\* String.prototype.toLowerCase on one character
LowerChar(c) ==
  CASE c = "A" -> "a" [] c = "B" -> "b" [] c = "C" -> "c" [] c = "D" -> "d"
    [] c = "E" -> "e" [] c = "F" -> "f" [] c = "G" -> "g" [] c = "H" -> "h"
    [] c = "I" -> "i" [] c = "J" -> "j" [] c = "K" -> "k" [] c = "L" -> "l"
    [] c = "M" -> "m" [] c = "N" -> "n" [] c = "O" -> "o" [] c = "P" -> "p"
    [] c = "Q" -> "q" [] c = "R" -> "r" [] c = "S" -> "s" [] c = "T" -> "t"
    [] c = "U" -> "u" [] c = "V" -> "v" [] c = "W" -> "w" [] c = "X" -> "x"
    [] c = "Y" -> "y" [] c = "Z" -> "z" [] OTHER -> c

\* String.prototype.toLowerCase
ToLowerCase(cs) == [i \in 1..Len(cs) |-> LowerChar(cs[i])]

\* String.prototype.includes: sub occurs in cs as a contiguous substring
Includes(cs, sub) ==
  \E i \in 0..(Len(cs) - Len(sub)) :
    \A j \in 1..Len(sub) : cs[i + j] = sub[j]

(***************************************************************************)
(* Maps (JavaScript Map objects) as functions with a finite domain.        *)
(***************************************************************************)
EmptyMap == [k \in {} |-> {}]

MapSet(m, key, value) ==
  [k \in (DOMAIN m) \cup {key} |-> IF k = key THEN value ELSE m[k]]

(***************************************************************************)
(* The six canonical lanes and the step -> lane lookup.                    *)
(***************************************************************************)
\* the value of a missing lane, description or action, and the empty string
\* as an id
None == ""

\* JSON null and the value of a field the payload does not carry, as ids
Null == "null"
Undefined == "undefined"

\* if (thoughtId && taskId): the ids that pass the test
truthy(id) == id \notin {None, Null, Undefined}

stepOrder ==
  << "THOUGHT_START", "SNAPSHOT_AND_CONTEXT", "DMA_RESULTS",
     "ASPDMA_RESULT", "CONSCIENCE_RESULT", "ACTION_RESULT" >>

Lanes == { stepOrder[i] : i \in 1..Len(stepOrder) }

\* getLaneName inside updateTaskThoughtFlow: case-insensitive substring match
\* a lookup that files every step it does not know under the last lane
getLaneName_fallback(stepName) == "ACTION_RESULT"

getLaneName(stepName) ==
  LET lower == ToLowerCase(Chars(stepName))
      some(tokens) == \E s \in tokens : Includes(lower, Chars(s))
  IN  IF some({"start_round", "gather_context", "perform_dmas", "snapshot_and_context"})
        THEN "SNAPSHOT_AND_CONTEXT"
      ELSE IF some({"perform_aspdma", "recursive_aspdma", "dma_results"})
        THEN "DMA_RESULTS"
      ELSE IF some({"conscience_execution", "recursive_conscience", "aspdma_result"})
        THEN "ASPDMA_RESULT"
      ELSE IF some({"finalize_action", "conscience_result"})
        THEN "CONSCIENCE_RESULT"
      ELSE IF some({"perform_action", "action_complete", "round_complete", "action_result"})
        THEN "ACTION_RESULT"
      ELSE None

\* the lane processSSEEvent signals to the animation for a step_update entry:
\* exact membership of the step name in the lane's list
animationLane(stepToProcess) ==
  IF stepToProcess \in {"start_round", "gather_context", "perform_dmas", "snapshot_and_context"}
    THEN "SNAPSHOT_AND_CONTEXT"
  ELSE IF stepToProcess \in {"perform_aspdma", "recursive_aspdma", "dma_results"}
    THEN "DMA_RESULTS"
  ELSE IF stepToProcess \in {"conscience_execution", "recursive_conscience", "aspdma_result"}
    THEN "ASPDMA_RESULT"
  ELSE IF stepToProcess \in {"finalize_action", "conscience_result"}
    THEN "CONSCIENCE_RESULT"
  ELSE IF stepToProcess \in {"perform_action", "action_complete", "round_complete", "action_result"}
    THEN "ACTION_RESULT"
  ELSE None

(***************************************************************************)
(* Inputs carried by the stream.                                           *)
(***************************************************************************)
TaskIds == {"t1", "t2"}
ThoughtIds == {"th1", "th2"}
\* current_step values of step_update entries: a known step, a terminal
\* step and a step no lane knows
StepNames == {"gather_context", "action_complete", "unknown_step"}
\* action_executed: absent, or one of the two completion sentinels
ActionsExecuted == {None, "task_complete", "task_reject"}
Descriptions == {None, "Answer ethics question"}

\* JSON true as the value of a field
JsonTrue == "true"

\* one entry of update.updated_thoughts with its conscience_passed and
\* selection_reasoning fields
ConscienceEntry(step, thoughtId, taskId, action, passed, reasoning) ==
  [current_step |-> step, thought_id |-> thoughtId, task_id |-> taskId,
   action_executed |-> action, conscience_passed |-> passed,
   selection_reasoning |-> reasoning]

\* one entry of update.updated_thoughts that carries neither of the two
Entry(step, thoughtId, taskId, action) ==
  ConscienceEntry(step, thoughtId, taskId, action, Undefined, Undefined)

\* the entries looked at: task_reject is reported at the terminal step, and
\* the step no lane knows by thought th1 of task t1
Entries ==
  { e \in { Entry(s, th, t, a) : s \in StepNames, th \in ThoughtIds, t \in TaskIds,
                                 a \in ActionsExecuted } :
      /\ e.action_executed = "task_reject" => e.current_step = "action_complete"
      /\ e.current_step = "unknown_step" =>
           (e.thought_id = "th1" /\ e.task_id = "t1" /\ e.action_executed = None) }

\* entries of a frame that carries two thoughts: thoughts of task t1 at a
\* step that has a lane, reporting no action
BatchEntries(thoughtId) ==
  { e \in Entries : /\ e.thought_id = thoughtId
                    /\ e.task_id = "t1"
                    /\ e.current_step # "unknown_step"
                    /\ e.action_executed = None }

\* entries of a conscience step: one that passed, one that only carries
\* the reasoning of the selection
ConscienceEntries ==
  { ConscienceEntry("conscience_execution", "th1", "t1", None, JsonTrue, Undefined),
    ConscienceEntry("finalize_action", "th1", "t1", None, Undefined, "reasoning") }

\* updated_thoughts arrays: one entry, or one entry for each of two thoughts
UpdatedThoughts ==
  { <<e>> : e \in Entries } \cup
  { <<e1, e2>> : e1 \in BatchEntries("th1"), e2 \in BatchEntries("th2") }

\* event_type values of the events[] form: the first lane, a middle lane
\* and the terminal lane
EventTypes == {"thought_start", "snapshot_and_context", "action_result"}

\* the ISO 8601 texts of the times of the clock, one for each millisecond
IsoTimes ==
  << "2025-01-01T00:00:00.001Z", "2025-01-01T00:00:00.002Z",
     "2025-01-01T00:00:00.003Z", "2025-01-01T00:00:00.004Z" >>

\* new Date(ms).toISOString()
toISOString(ms) == IsoTimes[ms]

\* new Date(timestamp).getTime()
getTime(timestamp) == CHOOSE ms \in 1..Len(IsoTimes) : IsoTimes[ms] = timestamp

\* one element of update.events; thought_start events carry the task
\* description, the other events an action_executed field; the event
\* carries the time the server gave it
Event(type, thoughtId, taskId, description, action) ==
  [event_type |-> type, thought_id |-> thoughtId, task_id |-> taskId,
   task_description |-> description, action_executed |-> action,
   timestamp |-> toISOString(1)]

\* the events looked at: task_reject is reported by the terminal event
Events ==
  { Event("thought_start", th, t, d, None) :
      th \in ThoughtIds, t \in TaskIds, d \in Descriptions } \cup
  { e \in { Event(ty, th, t, None, a) :
              ty \in EventTypes \ {"thought_start"}, th \in ThoughtIds, t \in TaskIds,
              a \in ActionsExecuted } :
      e.action_executed = "task_reject" => e.event_type = "action_result" }

BatchEvents(thoughtId) ==
  { e \in Events : /\ e.thought_id = thoughtId
                   /\ e.task_id = "t1"
                   /\ e.event_type # "thought_start"
                   /\ e.action_executed = None }

\* events arrays: one event, or one event for each of two thoughts
EventArrays ==
  { <<e>> : e \in Events } \cup
  { <<e1, e2>> : e1 \in BatchEvents("th1"), e2 \in BatchEvents("th2") }

(***************************************************************************)
(* State.                                                                  *)
(***************************************************************************)
VARIABLES
  page,                   \* the page that is mounted: "lane" or "interact"
  framesLeft,             \* frames the stream may still deliver (model bound)
  lastFrame,              \* the frame handled last: [type, data]
  \* ---- interact page (src/apps/agui/app/page.tsx) ----
  tasks,                  \* taskId -> [taskId, description, color, completed,
                          \*            firstTimestamp, isOurs, thoughts, entry]
  ourTaskIds,             \* the state hook beside ourTaskIdsRef
  messageToTaskMap,       \* the state hook beside messageToTaskMapRef
  ourTaskIdsRef,          \* task ids of the messages this client sent
  \* ---- lane page (src/unnamed/part_003) ----
  activeTasks,            \* taskId -> [color, description, thoughts, completed]
  taskColorIndex,         \* round-robin index into the palette (either page)
  completingTasks,        \* tasks playing the completion animation
  completingTimers,       \* pending 2 s timers that end it, a bag taskId -> count
  recentlyCompletedTasks, \* list of completed task ids for the results panel
  taskData,               \* taskId -> thoughtId -> list of steps
  conscienceResult,       \* << >> for null, or << [passed, reasoning] >>
  conscienceTimers,       \* pending 5 s timeouts that clear conscienceResult
  eventCollection,        \* lane signals buffered for the next animation
  collectionTimer,        \* TRUE while the 150 ms collection timeout is pending
  currentlyAnimating,     \* the single-flight lock
  anims,                  \* running processCollectedEvents calls
  activeStep,             \* the lane shown as active, None when cleared
  \* ---- lane page: the stream connection and its reconnect controller ----
  conns,                  \* connectStream calls in flight, each at "fetching" or "reading"
  reconnectAttempts,      \* consecutive reconnects scheduled since the last success
  reconnectTimer,         \* delay (ms) of the pending reconnect timeout, 0 when none
  streamConnected,
  streamError,            \* None, or the message shown
  aborted,                \* abortController.signal.aborted
  \* ---- either page: the SSE line parser of the connection that is reading ----
  eventType,              \* pending event type, a sequence of characters
  eventData,              \* pending data buffer, a sequence of characters
  readerDone,             \* reader.read() reported done and the loop was left
  lastLine,               \* the line handled last
  dataLineCount,          \* data: lines taken since the pending type was set
  dispatched,             \* arguments of the last processSSEEvent / processEvent call
  \* ---- interact page: submissions ----
  messageToTaskMapRef,    \* message_id -> task_id of the accepted submissions
  message,                \* either page: the text of the input box, a sequence of tokens
  submitPending,          \* sendMessageMutation.isPending: a mutate call is in flight
  \* ---- lane page: the collection window in time ----
  windowTimers,           \* time left on each pending 150 ms collection timeout
  \* ---- either page: the byte stream of the connection that is reading ----
  content,                \* the bytes the response body carries in all
  delivered,              \* how many of them reader.read() has handed over
  decoderPending,         \* bytes the TextDecoder holds back (an incomplete character)
  buffer,                 \* the characters after the last line break seen
  chunkLines,             \* lines of the current chunk the for loop has not reached
  emitted,                \* the processSSEEvent / processEvent calls made, in order
  messages,               \* interact page: the messages of the conversation history
  streamData,             \* runtime page: the retained step updates
  currentStepPoint,       \* runtime page: step point of the last update that had one
  lastStepResult,         \* runtime page: result of the last update that had one
  lastStepMetrics,        \* runtime page: << >> for null, or << the metrics set last >>
  processorState,         \* runtime page: the processor state set last
  now,                    \* the clock new Date() reads, in milliseconds
  pollPc,                 \* pollPartnershipStatus: where the call stands
  maxAttempts,            \* pollPartnershipStatus: its maxAttempts argument
  onStatusChange,         \* pollPartnershipStatus: whether a callback was passed
  pollAttempts,           \* pollPartnershipStatus: let attempts
  statusRequests,         \* getPartnershipStatus calls made by the poll
  statusChanges,          \* onStatusChange calls made by the poll
  pollStatus,             \* the status last received, returned at the end
  \* ---- either page: React's update queue of the page component ----
  renderPending,          \* an update of the component is scheduled and not rendered yet
  updateQueue             \* useState updaters that wait for that render, in call order

vars ==
  << page, framesLeft, lastFrame, tasks, ourTaskIds, messageToTaskMap, ourTaskIdsRef, activeTasks, taskColorIndex, completingTasks, completingTimers,
     recentlyCompletedTasks, taskData, conscienceResult, conscienceTimers,
     eventCollection, collectionTimer,
     currentlyAnimating, anims, activeStep, conns, reconnectAttempts,
     reconnectTimer, streamConnected, streamError, aborted, eventType, eventData,
     readerDone, lastLine, dataLineCount, dispatched, messageToTaskMapRef,
     message, submitPending, windowTimers, content, delivered, decoderPending, buffer, chunkLines, emitted,
     messages, streamData, currentStepPoint, lastStepResult, lastStepMetrics,
     processorState, now, pollPc, maxAttempts, onStatusChange, pollAttempts, statusRequests, statusChanges,
     pollStatus, renderPending, updateQueue >>

reactVars == << renderPending, updateQueue >>

parserVars == << eventType, eventData, readerDone, lastLine, dataLineCount, dispatched >>

submitVars == << messageToTaskMapRef, message, submitPending >>

windowVars == << windowTimers >>

chunkVars == << content, delivered, decoderPending, buffer, chunkLines, emitted >>

viewVars ==
  << messages, streamData, currentStepPoint, lastStepResult, lastStepMetrics,
     processorState, now >>

pollVars ==
  << pollPc, maxAttempts, onStatusChange, pollAttempts, statusRequests, statusChanges,
     pollStatus >>

flowVars ==
  << activeTasks, taskColorIndex, completingTasks, completingTimers,
     recentlyCompletedTasks, taskData, conscienceResult, conscienceTimers >>

animVars == << eventCollection, collectionTimer, currentlyAnimating, anims, activeStep >>

interactVars == << tasks, ourTaskIds, messageToTaskMap, ourTaskIdsRef >>

streamVars == << framesLeft, lastFrame >>

connVars ==
  << conns, reconnectAttempts, reconnectTimer, streamConnected, streamError, aborted >>

\* a stream is open: some connectStream call is in its read loop
StreamOpen == \E k \in 1..Len(conns) : conns[k] = "reading"

\* a frame as processSSEEvent / processEvent receive it: the event type and
\* the parsed data, a list of records
Frame(type, data) == [type |-> type, data |-> data]

NoFrame == Frame("none", << >>)

(***************************************************************************)
(* Lane page: the task / thought flow store.                               *)
(***************************************************************************)
\* a lookup that stays on the last colour instead of wrapping around
colorAt_clamped(palette, index) ==
  palette[(IF index < Len(palette) THEN index ELSE Len(palette) - 1) + 1]

\* taskColors[taskColorIndex.current % taskColors.length]
colorAt(palette, index) == palette[(index % Len(palette)) + 1]

taskColors ==
  << "bg-blue-500", "bg-green-500", "bg-purple-500", "bg-orange-500",
     "bg-red-500", "bg-pink-500", "bg-indigo-500", "bg-yellow-500" >>

\* const isCompleted = actionExecuted === 'task_complete' || ... 'task_reject'
isCompleted(actionExecuted) == actionExecuted \in {"task_complete", "task_reject"}

\* a thought record rebuilt from the current lane alone
stepsReachedAfter_reset(existing, laneName) ==
  IF laneName # None THEN {laneName} ELSE {}

\* a record that takes a lane only if it comes after every lane it has
stepsReachedAfter_forward(existing, laneName) ==
  LET pos(l) == CHOOSE i \in 1..Len(stepOrder) : stepOrder[i] = l
  IN  IF laneName # None /\ \A l \in existing : pos(l) < pos(laneName)
        THEN existing \cup {laneName} ELSE existing

\* stepsReached of the thought after the event: the existing set plus the lane
stepsReachedAfter(existing, laneName) ==
  IF laneName # None THEN existing \cup {laneName} ELSE existing

\* the task flag copied from the event
taskCompletedAfter_copy(completed, done) == done

\* if (isCompleted) task.completed = true
taskCompletedAfter(completed, done) == IF done THEN TRUE ELSE completed

\* description of a task already in the store: backfilled when it has none
descriptionAfter(description, taskDescription) ==
  IF taskDescription # None /\ description = None THEN taskDescription ELSE description

\* the flow state the setActiveTasks updater of one updateTaskThoughtFlow
\* call leaves: the map it returns, taskColorIndex.current and the timeout
\* it arms; the setters it calls are listed by nestedSetters
updateTaskThoughtFlow(fs, thoughtId, taskId, step, stepResultAction, taskDescription) ==
  LET isNew == taskId \notin DOMAIN fs.tasks
      task0 ==
        IF isNew
          THEN [ color |-> colorAt(taskColors, fs.colorIndex),
                 description |-> taskDescription,
                 thoughts |-> EmptyMap,
                 completed |-> FALSE ]
          ELSE [ fs.tasks[taskId] EXCEPT
                   !.description = descriptionAfter(@, taskDescription) ]
      done == isCompleted(stepResultAction)
      laneName == getLaneName(step)
      existing ==
        IF thoughtId \in DOMAIN task0.thoughts
          THEN task0.thoughts[thoughtId].stepsReached ELSE {}
      thought ==
        [ currentStep |-> step, completed |-> done,
          stepsReached |-> stepsReachedAfter(existing, laneName) ]
      task1 ==
        [ task0 EXCEPT !.thoughts = MapSet(@, thoughtId, thought),
                       !.completed = taskCompletedAfter(@, done) ]
  IN  [ tasks |-> MapSet(fs.tasks, taskId, task1),
        colorIndex |-> IF isNew THEN fs.colorIndex + 1 ELSE fs.colorIndex,
        completing |-> fs.completing,
        recent |-> fs.recent,
        timers |-> IF done THEN [fs.timers EXCEPT ![taskId] = @ + 1] ELSE fs.timers ]

\* setTaskData of a step_update: the first entry alone is recorded
taskDataAfter(td, entries) ==
  LET thought == entries[1]
      taskMap == IF thought.task_id \in DOMAIN td THEN td[thought.task_id] ELSE EmptyMap
      thoughtSteps ==
        IF thought.thought_id \in DOMAIN taskMap THEN taskMap[thought.thought_id] ELSE << >>
  IN  MapSet(td, thought.task_id,
             MapSet(taskMap, thought.thought_id,
                    Append(thoughtSteps, thought.current_step)))

(***************************************************************************)
(* Lane page: the animation scheduler.                                     *)
(***************************************************************************)
\* collectAnimationEvent with the check of the lock left out
collectAnimationEvent_unguarded(as, step, thoughtId) ==
  [ collection |-> Append(as.collection, [step |-> step, thoughtId |-> thoughtId]),
    timer |-> TRUE ]

\* collectAnimationEvent: the buffer and the collection timer it leaves
collectAnimationEvent(as, step, thoughtId) ==
  IF currentlyAnimating
    THEN as
    ELSE [ collection |-> Append(as.collection, [step |-> step, thoughtId |-> thoughtId]),
           timer |-> TRUE ]

\* the drain order taken as the arrival order of the signals
orderedStepsOf_arrival(eventsToProcess) ==
  [k \in 1..Len(eventsToProcess) |-> eventsToProcess[k].step]

\* orderedSteps = stepOrder.filter(step => uniqueSteps.has(step))
orderedStepsOf(eventsToProcess) ==
  LET uniqueSteps == { eventsToProcess[k].step : k \in 1..Len(eventsToProcess) }
  IN  SelectSeq(stepOrder, LAMBDA step : step \in uniqueSteps)

\* removes element k of a sequence
RemoveAt(seq, k) == SubSeq(seq, 1, k - 1) \o SubSeq(seq, k + 1, Len(seq))

\* The 150 ms collection timeout fires and calls processCollectedEvents,
\* which runs up to its first await; `lock` is the value it writes to
\* currentlyAnimating when it starts a sequence.
Drain(lock) ==
  /\ collectionTimer
  /\ collectionTimer' = FALSE
  /\ IF currentlyAnimating \/ Len(eventCollection) = 0
       THEN UNCHANGED << eventCollection, currentlyAnimating, anims, activeStep,
                         renderPending >>
       ELSE LET eventsToProcess == eventCollection
                orderedSteps == orderedStepsOf(eventsToProcess)
            IN  /\ currentlyAnimating' = lock
                /\ eventCollection' = << >>
                /\ IF Len(orderedSteps) = 0
                     THEN /\ anims' = Append(anims,
                               [ eventsToProcess |-> eventsToProcess,
                                 orderedSteps |-> orderedSteps,
                                 i |-> 0, phase |-> "cooldown" ])
                          /\ UNCHANGED << activeStep, renderPending >>
                     ELSE /\ anims' = Append(anims,
                               [ eventsToProcess |-> eventsToProcess,
                                 orderedSteps |-> orderedSteps,
                                 i |-> 1, phase |-> "lane" ])
                          /\ activeStep' = orderedSteps[1]
                          /\ renderPending' = TRUE
  /\ UNCHANGED << page, connVars, streamVars, interactVars, flowVars, updateQueue >>

\* a drain that starts its sequence without taking the lock
ProcessCollectedEvents_nolock == Drain(currentlyAnimating)

ProcessCollectedEvents == Drain(TRUE)

\* The 800 ms wait of sequence k ends: the loop shows the next lane, or
\* leaves the loop and arms the 2 s cooldown (animationTimeoutRef).
AnimationStep(k) ==
  /\ k \in 1..Len(anims)
  /\ anims[k].phase = "lane"
  /\ IF anims[k].i < Len(anims[k].orderedSteps)
       THEN /\ anims' = [anims EXCEPT ![k].i = @ + 1]
            /\ activeStep' = anims[k].orderedSteps[anims[k].i + 1]
            /\ renderPending' = TRUE
       ELSE /\ anims' = [anims EXCEPT ![k].phase = "cooldown"]
            /\ UNCHANGED << activeStep, renderPending >>
  /\ UNCHANGED << page, connVars, streamVars, interactVars, flowVars, eventCollection,
                  collectionTimer, currentlyAnimating, updateQueue >>

\* a cooldown that clears the active lane and keeps the lock
AnimationClear_keeplock(k) ==
  /\ k \in 1..Len(anims)
  /\ anims[k].phase = "cooldown"
  /\ activeStep' = None
  /\ renderPending' = (renderPending \/ activeStep # None)
  /\ anims' = RemoveAt(anims, k)
  /\ UNCHANGED << page, connVars, streamVars, interactVars, flowVars, eventCollection,
                  collectionTimer, currentlyAnimating, updateQueue >>

\* The cooldown of sequence k ends: the active lane is cleared and the lock
\* released.
AnimationClear(k) ==
  /\ k \in 1..Len(anims)
  /\ anims[k].phase = "cooldown"
  /\ activeStep' = None
  /\ renderPending' = (renderPending \/ activeStep # None)
  /\ currentlyAnimating' = FALSE
  /\ anims' = RemoveAt(anims, k)
  /\ UNCHANGED << page, connVars, streamVars, interactVars, flowVars, eventCollection,
                  collectionTimer, updateQueue >>

(***************************************************************************)
(* Interact page: processEvent and the events[] store.                     *)
(***************************************************************************)
taskColorsInteract ==
  << "bg-blue-500", "bg-green-500", "bg-purple-500", "bg-orange-500",
     "bg-red-500", "bg-pink-500" >>

\* a lookup that never finds the thought
findThought_never(thoughts, thoughtId) == 0

\* task.thoughts.find(t => t.thoughtId === thought_id): the position of the
\* first thought with that id, 0 when there is none
findThought(thoughts, thoughtId) ==
  IF \E k \in 1..Len(thoughts) : thoughts[k].thoughtId = thoughtId
    THEN CHOOSE k \in 1..Len(thoughts) :
           /\ thoughts[k].thoughtId = thoughtId
           /\ \A j \in 1..(k - 1) : thoughts[j].thoughtId # thoughtId
    ELSE 0

\* the completion test of processEvent
isTaskComplete(event) ==
  /\ event.event_type = "action_result"
  /\ event.action_executed \in {"task_complete", "task_reject"}

\* a task never marked as locally originated
isOursOf_never(task_id) == FALSE

\* const isOurs = ourTaskIdsRef.current.has(task_id)
isOursOf(task_id) == task_id \in ourTaskIdsRef

\* the setTasks updater for one event: the store and the colour index it
\* leaves.  A Map keeps its entries in the order in which they were set; the
\* record of a task carries the place of its entry.
applyEvent(st, event) ==
  LET task_id == event.task_id
      thought_id == event.thought_id
      isNew == task_id \notin DOMAIN st.tasks
      task0 ==
        IF isNew
          THEN [ taskId |-> task_id,
                 description |-> event.task_description,
                 color |-> colorAt(taskColorsInteract, st.colorIndex),
                 completed |-> FALSE,
                 firstTimestamp |-> IF truthy(event.timestamp) THEN event.timestamp
                                    ELSE toISOString(now),
                 isOurs |-> isOursOf(task_id),
                 thoughts |-> << >>,
                 entry |-> Cardinality(DOMAIN st.tasks) + 1 ]
          ELSE st.tasks[task_id]
      found == findThought(task0.thoughts, thought_id)
      thoughts1 ==
        IF found = 0
          THEN Append(task0.thoughts, [thoughtId |-> thought_id, stages |-> EmptyMap])
          ELSE task0.thoughts
      k == IF found = 0 THEN Len(thoughts1) ELSE found
      stage == [event_type |-> event.event_type, completed |-> TRUE, data |-> event]
      thoughts2 ==
        [thoughts1 EXCEPT ![k].stages = MapSet(@, event.event_type, stage)]
      task1 ==
        [ task0 EXCEPT !.thoughts = thoughts2,
                       !.completed = IF isTaskComplete(event) THEN TRUE ELSE @ ]
  IN  [ tasks |-> MapSet(st.tasks, task_id, task1),
        colorIndex |-> IF isNew THEN st.colorIndex + 1 ELSE st.colorIndex ]

(***************************************************************************)
(* React's state hooks.  The state of a hook changes when React renders    *)
(* the component.  A setter that is called with a function queues it for   *)
(* that render; when the component has no update scheduled React may run   *)
(* the function inside the call instead and keep its result with the       *)
(* update, and whether it does is not for the caller to know.  A setter    *)
(* called during the render is processed by that render, after the queue.  *)
(***************************************************************************)
\* updaters that may wait to be run while frames are still handled
MaxQueued == 1

\* the last millisecond of the clock
MaxClock == 2

\* error.message of what connectStream throws or fetch and read reject
\* with: `HTTP ${response.status}: ${response.statusText}` of a response
\* that is not ok, the TypeError of a failed fetch, the Error thrown for a
\* response without a body, the error of a read that fails
HttpError == "HTTP 503: Service Unavailable"
FetchTypeError == "Failed to fetch"
NotReadable == "Response body is not readable"
ReadError == "network error"

\* `Connection failed: ${error.message}`
ConnectionFailed(errorMessage) ==
  CASE errorMessage = HttpError -> "Connection failed: HTTP 503: Service Unavailable"
    [] errorMessage = FetchTypeError -> "Connection failed: Failed to fetch"
    [] errorMessage = NotReadable -> "Connection failed: Response body is not readable"
    [] errorMessage = ReadError -> "Connection failed: network error"

ConnectionLost == "Connection lost - max reconnection attempts reached"

\* what JSON.parse makes of the data of an error frame: an object with or
\* without a message, null, or nothing because it throws
ErrorData(errorMessage) == << [json |-> "object", message |-> errorMessage] >>

\* message fields of the error frames looked at: a text, none, the empty
\* string
ErrorMessages == {"boom", Undefined, None}

\* `Stream error: ${errorData.message || 'Unknown error'}`
StreamErrorMessage(errorData) ==
  LET text == IF truthy(errorData.message) THEN errorData.message ELSE "Unknown error"
  IN  CASE text = "boom" -> "Stream error: boom"
        [] text = "Unknown error" -> "Stream error: Unknown error"

FlowState ==
  [ tasks |-> activeTasks, colorIndex |-> taskColorIndex,
    completing |-> completingTasks, recent |-> recentlyCompletedTasks,
    timers |-> completingTimers ]

AnimState == [ collection |-> eventCollection, timer |-> collectionTimer ]

\* the state hooks and refs of the page component that the handlers use
Component ==
  [ flow |-> FlowState, anim |-> AnimState, taskData |-> taskData, tasks |-> tasks,
    ourTaskIds |-> ourTaskIds, messageToTaskMap |-> messageToTaskMap,
    conscienceResult |-> conscienceResult, conscienceTimers |-> conscienceTimers,
    streamConnected |-> streamConnected, streamError |-> streamError,
    renderPending |-> renderPending, updateQueue |-> updateQueue, eager |-> FALSE ]

\* the component as a handler finds it: React may or may not run, inside
\* the setter call, an updater passed while no update is scheduled
Components == { [Component EXCEPT !.eager = eager] : eager \in BOOLEAN }

\* a function passed to the setter of a hook, with the values it closes over
Updater(hook, arg) == [hook |-> hook, arg |-> arg]

\* the update of a hook whose updater ran inside the setter call: it keeps
\* the state the updater returned
Computed(hook, state) == [hook |-> "computed", of |-> hook, arg |-> state]

\* the updaters of a queue that were not run yet
waiting(queue) == SelectSeq(queue, LAMBDA u : u.hook # "computed")

\* the state of a hook
hookState(c, hook) ==
  CASE hook = "activeTasks" -> c.flow.tasks
    [] hook = "completingTasks" -> c.flow.completing
    [] hook = "recentlyCompletedTasks" -> c.flow.recent
    [] hook = "taskData" -> c.taskData
    [] hook = "tasks" -> c.tasks
    [] hook = "ourTaskIds" -> c.ourTaskIds
    [] hook = "messageToTaskMap" -> c.messageToTaskMap

\* the component with a state given to a hook
withHookState(c, hook, state) ==
  CASE hook = "activeTasks" -> [c EXCEPT !.flow.tasks = state]
    [] hook = "completingTasks" -> [c EXCEPT !.flow.completing = state]
    [] hook = "recentlyCompletedTasks" -> [c EXCEPT !.flow.recent = state]
    [] hook = "taskData" -> [c EXCEPT !.taskData = state]
    [] hook = "tasks" -> [c EXCEPT !.tasks = state]
    [] hook = "ourTaskIds" -> [c EXCEPT !.ourTaskIds = state]
    [] hook = "messageToTaskMap" -> [c EXCEPT !.messageToTaskMap = state]

\* the arguments of one updateTaskThoughtFlow call
FlowCall(thoughtId, taskId, step, stepResultAction, taskDescription) ==
  [ thoughtId |-> thoughtId, taskId |-> taskId, step |-> step,
    action |-> stepResultAction, description |-> taskDescription ]

\* a change of one of the two completion hooks
Change(op, taskId) == [op |-> op, taskId |-> taskId]

\* the test of the setTaskData updater for a conscience result: the step
\* is one of the two conscience steps and the entry carries
\* conscience_passed or a selection_reasoning
hasConscienceResult(thought) ==
  /\ thought.current_step \in {"conscience_execution", "finalize_action"}
  /\ (thought.conscience_passed # Undefined \/ truthy(thought.selection_reasoning))

\* { passed: thought.conscience_passed === true, reasoning: ... }
conscienceResultOf(thought) ==
  [ passed |-> (thought.conscience_passed = JsonTrue),
    reasoning |-> thought.selection_reasoning ]

\* what an updater returns and does by itself when React runs it; the
\* setTaskData updater also calls setConscienceResult and arms the 5 s
\* timeout that clears the result.  An update whose updater ran inside the
\* setter call gives the hook the state it kept.
runUpdater(c, u) ==
  IF u.hook = "computed"
    THEN withHookState(c, u.of, u.arg)
  ELSE IF u.hook = "activeTasks"
    THEN [c EXCEPT !.flow = updateTaskThoughtFlow(@, u.arg.thoughtId, u.arg.taskId,
                               u.arg.step, u.arg.action, u.arg.description)]
  ELSE IF u.hook = "taskData"
    THEN [c EXCEPT !.taskData = taskDataAfter(@, u.arg),
                   !.conscienceResult =
                      IF hasConscienceResult(u.arg[1])
                        THEN << conscienceResultOf(u.arg[1]) >> ELSE @,
                   !.conscienceTimers =
                      IF hasConscienceResult(u.arg[1]) THEN @ + 1 ELSE @]
  ELSE IF u.hook = "completingTasks"
    THEN [c EXCEPT !.flow.completing =
                      IF u.arg.op = "add" THEN @ \cup {u.arg.taskId}
                      ELSE @ \ {u.arg.taskId}]
  ELSE IF u.hook = "recentlyCompletedTasks"
    THEN [c EXCEPT !.flow.recent =
                      IF u.arg.op = "append" THEN Append(@, u.arg.taskId) ELSE << >>]
  ELSE IF u.hook = "ourTaskIds"
    THEN [c EXCEPT !.ourTaskIds = @ \cup {u.arg}]
  ELSE IF u.hook = "messageToTaskMap"
    THEN [c EXCEPT !.messageToTaskMap = MapSet(@, u.arg.message_id, u.arg.task_id)]
  ELSE LET st == applyEvent([tasks |-> c.tasks, colorIndex |-> c.flow.colorIndex], u.arg)
       IN  [c EXCEPT !.tasks = st.tasks, !.flow.colorIndex = st.colorIndex]

\* the setters an updater calls while it runs: setCompletingTasks and
\* setRecentlyCompletedTasks of a completion
nestedSetters(u) ==
  IF u.hook = "activeTasks" /\ isCompleted(u.arg.action)
    THEN << Updater("completingTasks", Change("add", u.arg.taskId)),
            Updater("recentlyCompletedTasks", Change("append", u.arg.taskId)) >>
    ELSE << >>

\* an updater ran inside the setter call and left the component ran: what
\* it did by itself stays (the palette index, the timers it armed), the
\* state of its hook is the rendered one still, and the state it returned
\* waits in the queue for the render
keepRun(c, u, ran) ==
  [ withHookState(ran, u.hook, hookState(c, u.hook))
      EXCEPT !.updateQueue = Append(@, Computed(u.hook, hookState(ran, u.hook))) ]

\* a setter called with an updater that calls no setter itself
setStateOnly(c, u) ==
  IF c.renderPending \/ ~c.eager
    THEN [c EXCEPT !.updateQueue = Append(@, u), !.renderPending = TRUE]
    ELSE [keepRun(c, u, runUpdater(c, u)) EXCEPT !.renderPending = TRUE]

\* the setters an updater calls while it runs inside a setter call, which
\* has not scheduled the render yet
callNested(c, nested) ==
  IF nested = << >> THEN c ELSE setStateOnly(setStateOnly(c, nested[1]), nested[2])

\* setX(prev => ...): the updater is queued for the render.  With no update
\* scheduled React may run it inside the call: what the updater does by
\* itself (the palette index, the timers it arms, the setters it calls,
\* which come before the call has scheduled the render) happens then, and
\* the state it returns waits in the queue for the render.
setState(c, u) ==
  IF c.renderPending \/ ~c.eager
    THEN [c EXCEPT !.updateQueue = Append(@, u), !.renderPending = TRUE]
    ELSE [ callNested(keepRun(c, u, runUpdater(c, u)), nestedSetters(u))
             EXCEPT !.renderPending = TRUE ]

\* setStreamConnected(value): a value equal to the rendered one schedules
\* nothing
setStreamConnected(c, value) ==
  [c EXCEPT !.streamConnected = value,
            !.renderPending = @ \/ value # c.streamConnected]

\* setStreamError(value)
setStreamError(c, value) ==
  [c EXCEPT !.streamError = value,
            !.renderPending = @ \/ value # c.streamError]

RECURSIVE runAll(_, _)
\* the updaters of a queue run in order
runAll(c, queue) ==
  IF queue = << >> THEN c ELSE runAll(runUpdater(c, Head(queue)), Tail(queue))

RECURSIVE nestedOf(_)
\* the setter calls made by the updaters of a queue while they run
nestedOf(queue) ==
  IF queue = << >> THEN << >> ELSE nestedSetters(Head(queue)) \o nestedOf(Tail(queue))

\* React renders the component: the queue of every hook is processed (the
\* kept states taken, the waiting updaters run), then the updates the
\* updaters scheduled during the render
render(c) ==
  [ runAll(runAll(c, c.updateQueue), nestedOf(c.updateQueue))
      EXCEPT !.renderPending = FALSE, !.updateQueue = << >> ]

(***************************************************************************)
(* Lane page: processSSEEvent.                                             *)
(***************************************************************************)
\* update.updated_thoughts.forEach(...): the component after the entries
\* from position k on
RECURSIVE forEachThought(_, _, _)
forEachThought(c, entries, k) ==
  IF k > Len(entries) THEN c
  ELSE LET thought == entries[k]
           newActiveStep == animationLane(thought.current_step)
       IN  forEachThought(
             IF /\ truthy(thought.current_step)
                /\ truthy(thought.thought_id)
                /\ truthy(thought.task_id)
               THEN [ setState(c, Updater("activeTasks",
                        FlowCall(thought.thought_id, thought.task_id,
                                 thought.current_step, thought.action_executed, None)))
                        EXCEPT !.anim =
                          IF newActiveStep # None
                            THEN collectAnimationEvent(@, newActiveStep, thought.thought_id)
                            ELSE @ ]
               ELSE c,
             entries, k + 1)

\* processSSEEvent(eventType, eventData), given the frame with its data
\* parsed; data that JSON.parse rejects (no data, or of kind "invalid"), or
\* whose fields cannot be read (null), ends in the catch block
processSSEEvent(c, frame) ==
  IF frame.type = "connected"
    THEN setStreamError(setStreamConnected(c, TRUE), None)
  ELSE IF frame.type = "thought_start"
    THEN IF /\ Len(frame.data) > 0
            /\ truthy(frame.data[1].thought_id)
            /\ truthy(frame.data[1].task_id)
           THEN [ setState(c, Updater("activeTasks",
                    FlowCall(frame.data[1].thought_id, frame.data[1].task_id,
                             "thought_start", None, frame.data[1].task_description)))
                    EXCEPT !.anim =
                      collectAnimationEvent(@, "THOUGHT_START", frame.data[1].thought_id) ]
           ELSE c
  ELSE IF frame.type = "step_update"
    THEN IF Len(frame.data) > 0
           THEN setState(forEachThought(c, frame.data, 1),
                         Updater("taskData", << frame.data[1] >>))
           ELSE c
  ELSE IF frame.type = "error"
    THEN IF Len(frame.data) > 0 /\ frame.data[1].json = "object"
           THEN setStreamError(c, StreamErrorMessage(frame.data[1]))
           ELSE c
  ELSE c

\* writes a flow-store record and an animation record back to the variables
Commit(flow, anim) ==
  /\ activeTasks' = flow.tasks
  /\ taskColorIndex' = flow.colorIndex
  /\ completingTasks' = flow.completing
  /\ recentlyCompletedTasks' = flow.recent
  /\ completingTimers' = flow.timers
  /\ eventCollection' = anim.collection
  /\ collectionTimer' = anim.timer

\* writes a component record back to the variables
Put(component) ==
  \E c \in {component} :
    /\ Commit(c.flow, c.anim)
    /\ taskData' = c.taskData
    /\ conscienceResult' = c.conscienceResult
    /\ conscienceTimers' = c.conscienceTimers
    /\ tasks' = c.tasks
    /\ ourTaskIds' = c.ourTaskIds
    /\ messageToTaskMap' = c.messageToTaskMap
    /\ streamConnected' = c.streamConnected
    /\ streamError' = c.streamError
    /\ renderPending' = c.renderPending
    /\ updateQueue' = c.updateQueue

\* what no handler and no render writes
outsideComponent ==
  << page, ourTaskIdsRef, currentlyAnimating, anims, activeStep, conns,
     reconnectAttempts, reconnectTimer, aborted >>

\* a frame of the task stream is handled: the frames of a run are counted,
\* and none is handled while MaxQueued updaters wait to be run
TaskFrame ==
  /\ framesLeft > 0
  /\ Len(waiting(updateQueue)) < MaxQueued
  /\ framesLeft' = framesLeft - 1

\* processSSEEvent is called with a frame
LaneFrame(frame) ==
  /\ page = "lane"
  /\ StreamOpen
  /\ lastFrame' = frame
  /\ \E c \in Components : Put(processSSEEvent(c, frame))
  /\ UNCHANGED outsideComponent

\* processSSEEvent('thought_start', ...)
ThoughtStart(thoughtId, taskId, taskDescription) ==
  /\ TaskFrame
  /\ LaneFrame(Frame("thought_start",
                     << [ thought_id |-> thoughtId, task_id |-> taskId,
                          task_description |-> taskDescription ] >>))

\* processSSEEvent('step_update', ...) with a non-empty updated_thoughts
StepUpdate(entries) ==
  /\ TaskFrame
  /\ LaneFrame(Frame("step_update", entries))

\* setTimeout(() => setCompletingTasks(... delete taskId), 2000)
CompletingTimeout(taskId) ==
  /\ completingTimers[taskId] > 0
  /\ \E c \in Components :
       Put(setState([c EXCEPT !.flow.timers[taskId] = @ - 1],
                    Updater("completingTasks", Change("delete", taskId))))
  /\ UNCHANGED << outsideComponent, streamVars >>

\* setTimeout(() => setConscienceResult(null), 5000): a result that is
\* already null schedules no render
ConscienceTimeout ==
  /\ page = "lane"
  /\ conscienceTimers > 0
  /\ Put([Component EXCEPT !.conscienceTimers = @ - 1,
                           !.conscienceResult = << >>,
                           !.renderPending = @ \/ conscienceResult # << >>])
  /\ UNCHANGED << outsideComponent, streamVars >>

\* onChange={(e) => setMessage(e.target.value)}: the input box of either
\* page
MessageChange(text) ==
  /\ message' = text
  /\ renderPending' = (renderPending \/ text # message)
  /\ UNCHANGED << page, streamVars, connVars, interactVars, flowVars, animVars,
                  messageToTaskMapRef, submitPending, updateQueue >>

\* onClick={() => setRecentlyCompletedTasks([])}: the Clear button of the
\* completed-tasks panel
ClearCompleted ==
  /\ page = "lane"
  /\ Len(recentlyCompletedTasks) > 0
  /\ Len(waiting(updateQueue)) < MaxQueued
  /\ \E c \in Components :
       Put(setState(c, Updater("recentlyCompletedTasks", Change("clear", None))))
  /\ UNCHANGED << outsideComponent, streamVars >>

\* React renders the page component; the read loop is not in the middle of
\* the lines of a chunk
Render ==
  /\ renderPending
  /\ chunkLines = << >>
  /\ Put(render(Component))
  /\ UNCHANGED << outsideComponent, streamVars >>

(***************************************************************************)
(* Interact page: processEvent.                                            *)
(***************************************************************************)
\* update.events.forEach(...): the component after the events from position
\* k on
RECURSIVE forEachEvent(_, _, _)
forEachEvent(c, events, k) ==
  IF k > Len(events) THEN c
  ELSE LET event == events[k]
       IN  forEachEvent(
             IF ~truthy(event.thought_id) \/ ~truthy(event.task_id)
               THEN c ELSE setState(c, Updater("tasks", event)),
             events, k + 1)

\* processEvent(eventType, eventData), given the frame with its data parsed
processEvent(c, frame) ==
  IF frame.type = "step_update" THEN forEachEvent(c, frame.data, 1) ELSE c

\* (interact page) processEvent('step_update', ...) is called by the read
\* loop with an events array; the handler calls of a run are counted
InteractDispatch(events) ==
  /\ page = "interact"
  /\ StreamOpen
  /\ framesLeft > 0
  /\ framesLeft' = framesLeft - 1
  /\ lastFrame' = Frame("step_update", events)
  /\ \E c \in Components : Put(processEvent(c, Frame("step_update", events)))
  /\ UNCHANGED outsideComponent

\* a step_update frame arrives by itself and processEvent is called with its
\* events array; none arrives while MaxQueued updaters wait to be run
ProcessEvent(events) ==
  /\ Len(waiting(updateQueue)) < MaxQueued
  /\ InteractDispatch(events)

(***************************************************************************)
(* Specification of the stream handlers and the stores they feed.  One of  *)
(* the two pages is mounted and its stream is open; React renders the page *)
(* at any time after a setter was called.                                  *)
(***************************************************************************)
\* the connection before its first reader.read(), given the bytes that the
\* response body will carry
ChunkInit(bytes) ==
  /\ content = bytes
  /\ delivered = 0
  /\ decoderPending = << >>
  /\ buffer = << >>
  /\ chunkLines = << >>
  /\ emitted = << >>

\* no history loaded, the runtime page's useState initial values, and the
\* first millisecond on the clock
ViewInit ==
  /\ now = 1
  /\ messages = << >>
  /\ streamData = << >>
  /\ currentStepPoint = None
  /\ lastStepResult = None
  /\ lastStepMetrics = << >>
  /\ processorState = "running"

\* no pollPartnershipStatus call is running
NoPoll ==
  /\ pollPc = "idle"
  /\ maxAttempts = 0
  /\ onStatusChange = FALSE
  /\ pollAttempts = 0
  /\ statusRequests = 0
  /\ statusChanges = 0
  /\ pollStatus = None

\* the component was rendered and no setter was called since
HooksInit ==
  /\ renderPending = FALSE
  /\ updateQueue = << >>

\* let buffer = '', eventType = '', eventData = '' of a connectStream call; no
\* line was handled and no event was dispatched yet
ParserInit ==
  /\ eventType = << >>
  /\ eventData = << >>
  /\ readerDone = FALSE
  /\ lastLine = << >>
  /\ dataLineCount = 0
  /\ dispatched = NoFrame

Init ==
  /\ page \in {"lane", "interact"}
  /\ framesLeft = MaxFrames
  /\ lastFrame = NoFrame
  /\ tasks = EmptyMap
  /\ ourTaskIds = {}
  /\ messageToTaskMap = EmptyMap
  /\ ourTaskIdsRef = {}
  /\ activeTasks = EmptyMap
  /\ taskColorIndex = 0
  /\ completingTasks = {}
  /\ completingTimers = [t \in TaskIds |-> 0]
  /\ recentlyCompletedTasks = << >>
  /\ taskData = EmptyMap
  /\ conscienceResult = << >>
  /\ conscienceTimers = 0
  /\ eventCollection = << >>
  /\ collectionTimer = FALSE
  /\ currentlyAnimating = FALSE
  /\ anims = << >>
  /\ activeStep = None
  /\ conns = << "reading" >>
  /\ reconnectAttempts = 0
  /\ reconnectTimer = 0
  /\ streamConnected = TRUE
  /\ streamError = None
  /\ aborted = FALSE
  /\ ParserInit
  /\ HooksInit
  /\ messageToTaskMapRef = EmptyMap
  /\ message = << >>
  /\ submitPending = FALSE
  /\ windowTimers = << >>
  /\ ChunkInit(<< >>)
  /\ ViewInit
  /\ NoPoll

Next ==
  \/ /\ Render
     /\ UNCHANGED << parserVars, submitVars, windowVars, chunkVars, viewVars, pollVars >>
  \/ /\ ClearCompleted
     /\ UNCHANGED << parserVars, submitVars, windowVars, chunkVars, viewVars, pollVars >>
  \/ /\ \E th \in ThoughtIds, t \in TaskIds, d \in Descriptions : ThoughtStart(th, t, d)
     /\ UNCHANGED << parserVars, submitVars, windowVars, chunkVars, viewVars, pollVars >>
  \/ /\ \E entries \in UpdatedThoughts : StepUpdate(entries)
     /\ UNCHANGED << parserVars, submitVars, windowVars, chunkVars, viewVars, pollVars >>
  \/ /\ \E events \in EventArrays : ProcessEvent(events)
     /\ UNCHANGED << parserVars, submitVars, windowVars, chunkVars, viewVars, pollVars >>
  \/ /\ \E t \in TaskIds : CompletingTimeout(t)
     /\ UNCHANGED << parserVars, submitVars, windowVars, chunkVars, viewVars, pollVars >>

Spec == Init /\ [][Next]_vars

(***************************************************************************)
(* Specification of the animation scheduler of the lane page: frames of    *)
(* the two thoughts of task t1 arrive while signals are collected, drained *)
(* and played.                                                             *)
(***************************************************************************)
\* updated_thoughts arrays of the two thoughts of task t1 at a lane step,
\* and the completion of the task by either thought
SchedUpdatedThoughts ==
  { <<e>> : e \in BatchEntries("th1") \cup BatchEntries("th2") } \cup
  { << Entry("action_complete", th, "t1", "task_complete") >> : th \in ThoughtIds } \cup
  { <<e1, e2>> : e1 \in BatchEntries("th1"), e2 \in BatchEntries("th2") }

InitSched == Init /\ page = "lane"

NextSched ==
  \/ /\ Render
     /\ UNCHANGED << parserVars, submitVars, windowVars, chunkVars, viewVars, pollVars >>
  \/ /\ \E th \in ThoughtIds : ThoughtStart(th, "t1", None)
     /\ UNCHANGED << parserVars, submitVars, windowVars, chunkVars, viewVars, pollVars >>
  \/ /\ \E entries \in SchedUpdatedThoughts : StepUpdate(entries)
     /\ UNCHANGED << parserVars, submitVars, windowVars, chunkVars, viewVars, pollVars >>
  \/ /\ CompletingTimeout("t1")
     /\ UNCHANGED << parserVars, submitVars, windowVars, chunkVars, viewVars, pollVars >>
  \/ /\ ProcessCollectedEvents
     /\ UNCHANGED << parserVars, submitVars, windowVars, chunkVars, viewVars, pollVars >>
  \/ /\ \E k \in 1..Len(anims) : AnimationStep(k)
     /\ UNCHANGED << parserVars, submitVars, windowVars, chunkVars, viewVars, pollVars >>
  \/ /\ \E k \in 1..Len(anims) : AnimationClear(k)
     /\ UNCHANGED << parserVars, submitVars, windowVars, chunkVars, viewVars, pollVars >>

SpecSched == InitSched /\ [][NextSched]_vars

(***************************************************************************)
(* Lane page: connectStream and the reconnect controller.                  *)
(***************************************************************************)
maxReconnectAttempts == 10

RECURSIVE Pow2(_)
\* Math.pow(2, n) for n >= 0
Pow2(n) == IF n = 0 THEN 1 ELSE 2 * Pow2(n - 1)

Min(a, b) == IF a < b THEN a ELSE b

\* a backoff of no time at all: setTimeout is never armed
backoffDelay_none(attempts) == 0

\* a backoff that doubles from the first attempt on
backoffDelay_early(attempts) == Min(1000 * Pow2(attempts), 30000)

\* Math.min(1000 * Math.pow(2, reconnectAttempts - 1), 30000)
backoffDelay(attempts) == Min(1000 * Pow2(attempts - 1), 30000)

\* reconnectAttempts >= maxReconnectAttempts
attemptsExhausted(attempts) == attempts >= maxReconnectAttempts

\* a connectStream call of an effect run that was cleaned up: its controller
\* is aborted, its fetch or read is about to reject with an AbortError
Stale(conn) == conn \in {"old_fetching", "old_reading"}

\* what the page component and the stream counters leave alone
besideConnection ==
  << page, aborted, ourTaskIdsRef, currentlyAnimating, anims, activeStep >>

\* scheduleReconnect, given the component as the caller left it
ScheduleReconnect(c) ==
  IF attemptsExhausted(reconnectAttempts)
    THEN /\ Put(setStreamError(c, ConnectionLost))
         /\ UNCHANGED << reconnectAttempts, reconnectTimer >>
    ELSE /\ reconnectAttempts' = reconnectAttempts + 1
         /\ reconnectTimer' = backoffDelay(reconnectAttempts + 1)
         /\ Put(c)

\* the catch block of connectStream of the lane page for an error that is
\* not an AbortError
CatchError(k, errorMessage) ==
  /\ page = "lane"
  /\ conns' = RemoveAt(conns, k)
  /\ \E c \in { setStreamConnected(
                    setStreamError(Component, ConnectionFailed(errorMessage)), FALSE) } :
       IF ~aborted
         THEN ScheduleReconnect(c)
         ELSE /\ Put(c)
              /\ UNCHANGED << reconnectAttempts, reconnectTimer >>
  /\ UNCHANGED << besideConnection, streamVars >>

\* fetch resolves with an ok response that has a body: the read loop starts
FetchOk(k) ==
  /\ page = "lane"
  /\ k \in 1..Len(conns)
  /\ conns[k] = "fetching"
  /\ conns' = [conns EXCEPT ![k] = "reading"]
  /\ Put(setStreamError(setStreamConnected(Component, TRUE), None))
  /\ reconnectAttempts' = 0
  /\ UNCHANGED << besideConnection, reconnectTimer, streamVars >>

\* the errors a fetch ends with before the response counts as a connection
FetchErrors == {FetchTypeError, HttpError}

\* fetch rejects with a network error, or resolves with a response that is
\* not ok
FetchFail(k, errorMessage) ==
  /\ k \in 1..Len(conns)
  /\ conns[k] = "fetching"
  /\ CatchError(k, errorMessage)

\* fetch resolves with an ok response that has no body: the connection is
\* marked open and the attempt counter reset before the missing reader
\* throws into the catch block
FetchNoBody(k) ==
  /\ page = "lane"
  /\ k \in 1..Len(conns)
  /\ conns[k] = "fetching"
  /\ conns' = RemoveAt(conns, k)
  /\ \E c \in { setStreamConnected(
                    setStreamError(
                      setStreamError(setStreamConnected(Component, TRUE), None),
                      ConnectionFailed(NotReadable)),
                    FALSE) } :
       /\ Put(c)
       /\ IF ~aborted
            THEN /\ reconnectAttempts' = 1
                 /\ reconnectTimer' = backoffDelay(1)
            ELSE /\ reconnectAttempts' = 0
                 /\ UNCHANGED reconnectTimer
  /\ UNCHANGED << besideConnection, streamVars >>

\* reader.read() rejects with a transport error
ReadFail(k) ==
  /\ k \in 1..Len(conns)
  /\ conns[k] = "reading"
  /\ CatchError(k, ReadError)

\* the frame types that carry tasks and thoughts
TaskFrameTypes == {"thought_start", "step_update"}

\* reader.read() reports done while `pending` is the frame whose type and
\* data were read and not yet followed by a blank line (NoFrame when there
\* is none): the frame is handed to processSSEEvent, then the connection is
\* marked closed and a reconnect scheduled
StreamEnd(k, pending) ==
  /\ k \in 1..Len(conns)
  /\ conns[k] = "reading"
  /\ conns' = RemoveAt(conns, k)
  /\ \E before \in Components :
     \E c \in { setStreamConnected(
                  IF pending = NoFrame THEN before
                  ELSE processSSEEvent(before, pending),
                  FALSE) } :
       IF ~aborted
         THEN ScheduleReconnect(c)
         ELSE /\ Put(c)
              /\ UNCHANGED << reconnectAttempts, reconnectTimer >>
  /\ UNCHANGED besideConnection

\* frames that may be pending when the stream ends
PendingFrames ==
  { NoFrame, Frame("connected", << >>), Frame("error", ErrorData("boom")),
    Frame("thought_start",
          << [thought_id |-> "th1", task_id |-> "t1", task_description |-> None] >>) }

\* the stream of connection k ends with a frame pending, or with none
StreamEnds(k, pending) ==
  /\ StreamEnd(k, pending)
  /\ IF pending = NoFrame
       THEN UNCHANGED streamVars
       ELSE /\ lastFrame' = pending
            /\ IF pending.type \in TaskFrameTypes
                 THEN TaskFrame
                 ELSE UNCHANGED framesLeft

\* fetch or reader.read() rejects with the AbortError of the cleanup
AbortError(k) ==
  /\ k \in 1..Len(conns)
  /\ aborted \/ Stale(conns[k])
  /\ conns' = RemoveAt(conns, k)
  /\ UNCHANGED << reactVars, page, reconnectAttempts, reconnectTimer, streamConnected,
                  streamError, aborted, streamVars, interactVars, flowVars, animVars >>

\* the reconnect timeout fires and calls connectStream
ReconnectTimeout ==
  /\ reconnectTimer # 0
  /\ reconnectTimer' = 0
  /\ conns' = Append(conns, "fetching")
  /\ UNCHANGED << reactVars, page, reconnectAttempts, streamConnected, streamError, aborted,
                  streamVars, interactVars, flowVars, animVars >>

\* a cleanup that aborts and leaves the reconnect timeout pending
Cleanup_keeptimer ==
  /\ ~aborted
  /\ aborted' = TRUE
  /\ UNCHANGED << reactVars, page, conns, reconnectAttempts, reconnectTimer, streamConnected,
                  streamError, streamVars, interactVars, flowVars, animVars >>

\* the cleanup of the effect: abort and clear the reconnect timeout
Cleanup ==
  /\ ~aborted
  /\ aborted' = TRUE
  /\ reconnectTimer' = 0
  /\ UNCHANGED << reactVars, page, conns, reconnectAttempts, streamConnected, streamError,
                  streamVars, interactVars, flowVars, animVars >>

\* processSSEEvent('connected', ...)
ConnectedFrame ==
  /\ UNCHANGED framesLeft
  /\ LaneFrame(Frame("connected", << >>))

\* data of an error frame that parses to null: reading its message throws
\* inside the try block
NullData == << [json |-> "null"] >>

\* data of an error frame that JSON.parse rejects
BadData == << [json |-> "invalid"] >>

\* processSSEEvent('error', ...) with data that parses to an object or to
\* another value whose message can be read
ErrorFrame(errorMessage) ==
  /\ UNCHANGED framesLeft
  /\ LaneFrame(Frame("error", ErrorData(errorMessage)))

\* processSSEEvent('error', ...) with the data `null`: the catch block logs
ErrorFrameNull ==
  /\ UNCHANGED framesLeft
  /\ LaneFrame(Frame("error", NullData))

(***************************************************************************)
(* Specification of the connection of the lane page: the effect has just   *)
(* mounted and called connectStream.  Task frames are left to Spec.        *)
(***************************************************************************)
\* setStreamError('Authentication required for streaming')
AuthRequired == "Authentication required for streaming"

\* the effect ran at mount: with an access token it called connectStream,
\* without one it set the error and returned
InitConn ==
  /\ page = "lane"
  /\ framesLeft = MaxFrames
  /\ lastFrame = NoFrame
  /\ tasks = EmptyMap
  /\ ourTaskIds = {}
  /\ messageToTaskMap = EmptyMap
  /\ ourTaskIdsRef = {}
  /\ activeTasks = EmptyMap
  /\ taskColorIndex = 0
  /\ completingTasks = {}
  /\ completingTimers = [t \in TaskIds |-> 0]
  /\ recentlyCompletedTasks = << >>
  /\ taskData = EmptyMap
  /\ conscienceResult = << >>
  /\ conscienceTimers = 0
  /\ eventCollection = << >>
  /\ collectionTimer = FALSE
  /\ currentlyAnimating = FALSE
  /\ anims = << >>
  /\ activeStep = None
  /\ \E token \in BOOLEAN :
       IF token
         THEN /\ conns = << "fetching" >>
              /\ streamError = None
              /\ renderPending = FALSE
         ELSE /\ conns = << >>
              /\ streamError = AuthRequired
              /\ renderPending = TRUE
  /\ updateQueue = << >>
  /\ reconnectAttempts = 0
  /\ reconnectTimer = 0
  /\ streamConnected = FALSE
  /\ aborted = FALSE
  /\ ParserInit
  /\ messageToTaskMapRef = EmptyMap
  /\ message = << >>
  /\ submitPending = FALSE
  /\ windowTimers = << >>
  /\ ChunkInit(<< >>)
  /\ ViewInit
  /\ NoPoll

NextConn ==
  \/ /\ Render
     /\ UNCHANGED << parserVars, submitVars, windowVars, chunkVars, viewVars, pollVars >>
  \/ /\ \E k \in 1..Len(conns) : FetchOk(k)
     /\ UNCHANGED << parserVars, submitVars, windowVars, chunkVars, viewVars, pollVars >>
  \/ /\ \E k \in 1..Len(conns), e \in FetchErrors : FetchFail(k, e)
     /\ UNCHANGED << parserVars, submitVars, windowVars, chunkVars, viewVars, pollVars >>
  \/ /\ \E k \in 1..Len(conns) : FetchNoBody(k)
     /\ UNCHANGED << parserVars, submitVars, windowVars, chunkVars, viewVars, pollVars >>
  \/ /\ \E k \in 1..Len(conns) : ReadFail(k)
     /\ UNCHANGED << parserVars, submitVars, windowVars, chunkVars, viewVars, pollVars >>
  \/ /\ \E k \in 1..Len(conns), pending \in PendingFrames : StreamEnds(k, pending)
     /\ UNCHANGED << parserVars, submitVars, windowVars, chunkVars, viewVars, pollVars >>
  \/ /\ \E k \in 1..Len(conns) : AbortError(k)
     /\ UNCHANGED << parserVars, submitVars, windowVars, chunkVars, viewVars, pollVars >>
  \/ /\ ReconnectTimeout
     /\ UNCHANGED << parserVars, submitVars, windowVars, chunkVars, viewVars, pollVars >>
  \/ /\ Cleanup
     /\ UNCHANGED << parserVars, submitVars, windowVars, chunkVars, viewVars, pollVars >>
  \/ /\ ConnectedFrame
     /\ UNCHANGED << parserVars, submitVars, windowVars, chunkVars, viewVars, pollVars >>
  \/ /\ \E m \in ErrorMessages : ErrorFrame(m)
     /\ UNCHANGED << parserVars, submitVars, windowVars, chunkVars, viewVars, pollVars >>

SpecConn == InitConn /\ [][NextConn]_vars

(***************************************************************************)
(* Views of the state used by the properties.                              *)
(***************************************************************************)
\* the (task, thought) pairs the lane page tracks
FlowThoughts ==
  { <<t, th>> \in TaskIds \X ThoughtIds :
      t \in DOMAIN activeTasks /\ th \in DOMAIN activeTasks[t].thoughts }

\* a step that handles one task frame of the stream
FrameStep == framesLeft' = framesLeft - 1

\* position of a lane in the canonical order
LaneIndex(lane) == CHOOSE i \in 1..Len(stepOrder) : stepOrder[i] = lane

\* React renders in this step
RenderStep == renderPending /\ ~renderPending'

\* the updaters the handler of a task frame passes to the setters of the
\* stores, in the order of its calls
updatersOf(frame) ==
  LET valid == SelectSeq(frame.data,
                         LAMBDA item : truthy(item.thought_id) /\ truthy(item.task_id))
  IN  IF page = "lane" /\ frame.type = "thought_start"
        THEN [ i \in 1..Len(valid) |->
                 Updater("activeTasks",
                         FlowCall(valid[i].thought_id, valid[i].task_id, "thought_start",
                                  None, valid[i].task_description)) ]
      ELSE IF page = "lane" /\ frame.type = "step_update" /\ Len(frame.data) > 0
        THEN [ i \in 1..Len(valid) |->
                 Updater("activeTasks",
                         FlowCall(valid[i].thought_id, valid[i].task_id,
                                  valid[i].current_step, valid[i].action_executed, None)) ]
             \o << Updater("taskData", << frame.data[1] >>) >>
      ELSE IF page = "interact" /\ frame.type = "step_update"
        THEN [ i \in 1..Len(valid) |-> Updater("tasks", valid[i]) ]
      ELSE << >>

\* React ran the first updater of the frame handled in this step inside the
\* setter call
RanInCall ==
  /\ FrameStep
  /\ ~renderPending
  /\ updatersOf(lastFrame') # << >>
  /\ updateQueue' # << >>
  /\ updateQueue'[1].hook = "computed"

\* the updates React processes in this step: the queue in a render, and the
\* first updater of a frame when it runs inside the setter call, each with
\* the setters it calls as far as they run in the step
Ran ==
  IF RenderStep THEN updateQueue \o nestedOf(updateQueue)
  ELSE IF RanInCall
    THEN LET u == updatersOf(lastFrame')[1]
         IN  IF nestedSetters(u) = << >> THEN << u >>
             ELSE << u, nestedSetters(u)[1] >>
  ELSE << >>

RECURSIVE applied(_, _)
\* the component before and after each updater of a sequence
applied(c, us) ==
  IF us = << >> THEN << >>
  ELSE LET post == runUpdater(c, Head(us))
       IN  << [pre |-> c, u |-> Head(us), post |-> post] >> \o applied(post, Tail(us))

\* the updater runs of this step
Applied == applied(Component, Ran)

\* the updater runs of this step that apply an event of the stream
EventsApplied == SelectSeq(Applied, LAMBDA a : a.u.hook \in {"activeTasks", "tasks"})

\* two lane stores agree on each thought's stepsReached and each task's flag
FlowStagesSame(a, b) ==
  /\ DOMAIN b = DOMAIN a
  /\ \A t \in DOMAIN a :
       /\ b[t].completed = a[t].completed
       /\ DOMAIN b[t].thoughts = DOMAIN a[t].thoughts
       /\ \A th \in DOMAIN a[t].thoughts :
            b[t].thoughts[th].stepsReached = a[t].thoughts[th].stepsReached

\* two interact stores agree on each task's list of thoughts, the stage
\* names recorded for each thought and each task's flag
TasksStagesSame(a, b) ==
  /\ DOMAIN b = DOMAIN a
  /\ \A t \in DOMAIN a :
       /\ b[t].completed = a[t].completed
       /\ Len(b[t].thoughts) = Len(a[t].thoughts)
       /\ \A k \in 1..Len(a[t].thoughts) :
            /\ b[t].thoughts[k].thoughtId = a[t].thoughts[k].thoughtId
            /\ DOMAIN b[t].thoughts[k].stages = DOMAIN a[t].thoughts[k].stages

(***************************************************************************)
(* Properties.                                                             *)
(***************************************************************************)
\* C1: over every step, the stepsReached set of every tracked thought is a
\* superset of what it was before the step (the thought stays tracked), and
\* after the step it holds canonical lane names only.
C1_StagesReachedMonotone ==
  [][ /\ \A p \in FlowThoughts :
           /\ p[1] \in DOMAIN activeTasks'
           /\ p[2] \in DOMAIN activeTasks'[p[1]].thoughts
           /\ activeTasks[p[1]].thoughts[p[2]].stepsReached
                \subseteq activeTasks'[p[1]].thoughts[p[2]].stepsReached
      /\ \A t \in DOMAIN activeTasks' : \A th \in DOMAIN activeTasks'[t].thoughts :
           activeTasks'[t].thoughts[th].stepsReached \subseteq Lanes ]_vars

\* C1 witness: a thought that reached a lane and whose latest step maps to
\* no lane still holds the lane it reached before.
C1_Witness ==
  \E p \in FlowThoughts :
    /\ activeTasks[p[1]].thoughts[p[2]].currentStep = "unknown_step"
    /\ activeTasks[p[1]].thoughts[p[2]].stepsReached = {"SNAPSHOT_AND_CONTEXT"}

\* C2: whenever React has run the updater of a stage event, running the
\* same updater once more (the event is replayed) leaves, on the lane page,
\* every stepsReached set and every task's completed flag as they were
\* after the first run, and on the interact page every thought list, every
\* thought's set of recorded stage names and every task's completed flag.
C2_ReplayIdempotent ==
  [][ \A i \in 1..Len(EventsApplied) :
        LET first == EventsApplied[i].post
            again == runUpdater(first, EventsApplied[i].u)
        IN  /\ FlowStagesSame(first.flow.tasks, again.flow.tasks)
            /\ TasksStagesSame(first.tasks, again.tasks) ]_vars

\* C2 witness: the lane page after the same single-entry frame was handled
\* twice: the detail store logged the step twice for the one thought of the
\* one task, and nothing was completed.
C2_Witness ==
  /\ page = "lane"
  /\ framesLeft = MaxFrames - 2
  /\ lastFrame = Frame("step_update", << Entry("gather_context", "th1", "t1", None) >>)
  /\ DOMAIN activeTasks = {"t1"}
  /\ DOMAIN activeTasks["t1"].thoughts = {"th1"}
  /\ activeTasks["t1"].thoughts["th1"].stepsReached = {"SNAPSHOT_AND_CONTEXT"}
  /\ ~renderPending
  /\ taskData["t1"]["th1"] = << "gather_context", "gather_context" >>
  /\ Len(recentlyCompletedTasks) = 0

\* C3: over every step, a task whose completed flag is true stays in its
\* store with the flag still true, on either page.
C3_CompletedMonotone ==
  [][ /\ \A t \in DOMAIN activeTasks :
           activeTasks[t].completed =>
             (t \in DOMAIN activeTasks' /\ activeTasks'[t].completed)
      /\ \A t \in DOMAIN tasks :
           tasks[t].completed => (t \in DOMAIN tasks' /\ tasks'[t].completed) ]_vars

\* C3 witness: a completed task whose last frame was a later thought_start
\* (lane page) or a later non-terminal event (interact page).
C3_Witness ==
  \/ /\ page = "lane"
     /\ lastFrame.type = "thought_start"
     /\ lastFrame.data[1].task_id \in DOMAIN activeTasks
     /\ activeTasks[lastFrame.data[1].task_id].completed
  \/ /\ page = "interact"
     /\ lastFrame.type = "step_update"
     /\ lastFrame.data[1].event_type = "thought_start"
     /\ lastFrame.data[1].task_id \in DOMAIN tasks
     /\ tasks[lastFrame.data[1].task_id].completed

\* the event of an updater names task t at the terminal action-result
\* stage with a completion sentinel
Qualifies(u, t) ==
  IF u.hook = "activeTasks"
    THEN /\ u.arg.taskId = t
         /\ u.arg.action \in {"task_complete", "task_reject"}
         /\ getLaneName(u.arg.step) = "ACTION_RESULT"
    ELSE /\ u.arg.task_id = t
         /\ u.arg.action_executed \in {"task_complete", "task_reject"}
         /\ u.arg.event_type = "action_result"

\* the completed flag of task t in the store of the mounted page
completedIn(c, t) ==
  IF page = "lane"
    THEN t \in DOMAIN c.flow.tasks /\ c.flow.tasks[t].completed
    ELSE t \in DOMAIN c.tasks /\ c.tasks[t].completed

\* C4 (as claimed): applying an event turns a task's completed flag to true
\* exactly when the event is, for that task, at the terminal action-result
\* stage with action_executed task_complete or task_reject.
C4_CompletionOnlyAtTerminalStage ==
  [][ \A i \in 1..Len(EventsApplied) : \A t \in TaskIds :
        LET a == EventsApplied[i]
        IN  ~completedIn(a.pre, t) => (completedIn(a.post, t) <=> Qualifies(a.u, t)) ]_vars

\* C5 (as claimed): applying a thought_start that carries a description
\* for a task stored with an empty description fills the description in and
\* leaves the stage data of the task's thoughts as it was (lane page:
\* stepsReached, currentStep and the task flag; interact page: the stage
\* entries recorded before and the task flag).
C5_BackfillKeepsStageData ==
  [][ \A i \in 1..Len(EventsApplied) :
        LET a == EventsApplied[i]
            old == a.pre.flow.tasks
            new == a.post.flow.tasks
            oldTasks == a.pre.tasks
            newTasks == a.post.tasks
        IN  /\ (a.u.hook = "activeTasks" /\ a.u.arg.step = "thought_start") =>
                 LET t == a.u.arg.taskId
                     d == a.u.arg.description
                 IN  (t \in DOMAIN old /\ old[t].description = None /\ d # None) =>
                       /\ new[t].description = d
                       /\ new[t].completed = old[t].completed
                       /\ \A th \in DOMAIN old[t].thoughts :
                            /\ new[t].thoughts[th].stepsReached
                                 = old[t].thoughts[th].stepsReached
                            /\ new[t].thoughts[th].currentStep
                                 = old[t].thoughts[th].currentStep
            /\ (a.u.hook = "tasks" /\ a.u.arg.event_type = "thought_start") =>
                 LET t == a.u.arg.task_id
                     d == a.u.arg.task_description
                 IN  (t \in DOMAIN oldTasks /\ oldTasks[t].description = None /\ d # None) =>
                       /\ newTasks[t].description = d
                       /\ newTasks[t].completed = oldTasks[t].completed
                       /\ \A k \in 1..Len(oldTasks[t].thoughts) :
                            \A ty \in DOMAIN oldTasks[t].thoughts[k].stages \ {"thought_start"} :
                              /\ ty \in DOMAIN newTasks[t].thoughts[k].stages
                              /\ newTasks[t].thoughts[k].stages[ty]
                                   = oldTasks[t].thoughts[k].stages[ty]
      ]_vars

\* C6: every running sequence plays the distinct lanes of the signals it
\* drained, each once, in canonical order: orderedSteps has as many elements
\* as there are distinct lanes in the batch, holds exactly those lanes, and
\* is increasing in canonical position; while lanes are shown the active
\* lane is the i-th of them, and at the cooldown i is the number of distinct
\* lanes, so that many transitions were made before the clear.
C6_DrainCanonicalOnce ==
  \A k \in 1..Len(anims) :
    LET a == anims[k]
        lanes == { a.eventsToProcess[j].step : j \in 1..Len(a.eventsToProcess) }
        N == Cardinality(lanes)
    IN  /\ Len(a.orderedSteps) = N
        /\ { a.orderedSteps[j] : j \in 1..N } = lanes
        /\ \A x, y \in 1..N :
             x < y => LaneIndex(a.orderedSteps[x]) < LaneIndex(a.orderedSteps[y])
        /\ a.phase = "lane" => (a.i \in 1..N /\ activeStep = a.orderedSteps[a.i])
        /\ a.phase = "cooldown" => a.i = N

\* C6 witness: a sequence at its cooldown that drained the terminal lane
\* first and THOUGHT_START last and showed three lanes.
C6_Witness ==
  /\ Len(anims) = 1
  /\ anims[1].phase = "cooldown"
  /\ anims[1].i = 3
  /\ Len(anims[1].eventsToProcess) = 3
  /\ anims[1].eventsToProcess[1].step = "ACTION_RESULT"
  /\ anims[1].eventsToProcess[3].step = "THOUGHT_START"
  /\ activeStep = "ACTION_RESULT"

\* C7: at most one sequence is running, and one is running exactly while
\* the lock is held.
C7_SingleFlight ==
  /\ Len(anims) <= 1
  /\ currentlyAnimating <=> Len(anims) = 1

\* C7 witness: a sequence is in its cooldown, a thought_start arrived after
\* its drain (THOUGHT_START is not one of its lanes), and no second drain is
\* running or pending.
C7_Witness ==
  /\ Len(anims) = 1
  /\ anims[1].phase = "cooldown"
  /\ lastFrame.type = "thought_start"
  /\ \A j \in 1..Len(anims[1].orderedSteps) : anims[1].orderedSteps[j] # "THOUGHT_START"
  /\ ~collectionTimer

\* what a lane-page frame must leave in the flow store
FrameRecorded(frame) ==
  \A k \in 1..Len(frame.data) :
    LET item == frame.data[k]
        step == IF frame.type = "thought_start" THEN "thought_start" ELSE item.current_step
        done == frame.type = "step_update" /\ isCompleted(item.action_executed)
    IN  /\ item.task_id \in DOMAIN activeTasks'
        /\ item.thought_id \in DOMAIN activeTasks'[item.task_id].thoughts
        /\ activeTasks'[item.task_id].thoughts[item.thought_id].currentStep = step
        /\ getLaneName(step) # None =>
             getLaneName(step)
               \in activeTasks'[item.task_id].thoughts[item.thought_id].stepsReached
        /\ done => activeTasks'[item.task_id].completed

\* what a run of an updateTaskThoughtFlow updater leaves in the flow store
Recorded(a) ==
  LET call == a.u.arg
      store == a.post.flow.tasks
  IN  /\ call.taskId \in DOMAIN store
      /\ call.thoughtId \in DOMAIN store[call.taskId].thoughts
      /\ store[call.taskId].thoughts[call.thoughtId].currentStep = call.step
      /\ getLaneName(call.step) # None =>
           getLaneName(call.step) \in store[call.taskId].thoughts[call.thoughtId].stepsReached
      /\ isCompleted(call.action) => store[call.taskId].completed

\* C8 (as claimed): a task frame handled on the lane page while the lock is
\* held leaves the animation buffer, the collection timer, the running
\* sequence and the active lane untouched, and after that same step the
\* flow store holds the frame's data: task and thought exist, currentStep is
\* the frame's step, its lane is in stepsReached, and a sentinel has set
\* completed.
C8_StoredInSameStep ==
  [][ (page = "lane" /\ currentlyAnimating /\ FrameStep) =>
        (UNCHANGED animVars /\ FrameRecorded(lastFrame')) ]_vars

\* C8: a task frame handled on the lane page while the lock is held leaves
\* the animation buffer, the collection timer, the running sequence and the
\* active lane untouched, and a frame that has store updates schedules a
\* render; every render, with the lock held or free, leaves the data of
\* the frame handled last in the flow store: task and thought exist,
\* currentStep is the frame's step, its lane is in stepsReached, and a
\* sentinel has set completed.
C8_BlockedSignalStillStored ==
  /\ [][ (page = "lane" /\ currentlyAnimating /\ FrameStep) =>
           /\ UNCHANGED animVars
           /\ updatersOf(lastFrame') # << >> => renderPending' ]_vars
  /\ [][ (page = "lane" /\ RenderStep) => FrameRecorded(lastFrame') ]_vars

\* C8 witness: the lock is held, the last frame put thought th2 at a lane
\* step, the page was rendered and the store has the lane, the buffer is
\* empty and the running sequence does not show that lane.
C8_Witness ==
  /\ currentlyAnimating
  /\ ~renderPending
  /\ Len(anims) = 1
  /\ Len(eventCollection) = 0
  /\ lastFrame = Frame("step_update", << Entry("action_complete", "th2", "t1", None) >>)
  /\ "t1" \in DOMAIN activeTasks
  /\ "th2" \in DOMAIN activeTasks["t1"].thoughts
  /\ "ACTION_RESULT" \in activeTasks["t1"].thoughts["th2"].stepsReached
  /\ \A j \in 1..Len(anims[1].orderedSteps) : anims[1].orderedSteps[j] # "ACTION_RESULT"

\* the delays of the first to the tenth consecutive reconnect, in ms
ExpectedDelays ==
  << 1000, 2000, 4000, 8000, 16000, 30000, 30000, 30000, 30000, 30000 >>

\* C9: a pending reconnect timer is the one of the k-th consecutive attempt,
\* k = reconnectAttempts in 1..10, and its delay is 1 s, 2 s, 4 s, 8 s, 16 s
\* and 30 s from the sixth on; while a stream is open the counter is 0.
C9_BackoffSchedule ==
  /\ reconnectTimer # 0 =>
       /\ reconnectAttempts \in 1..Len(ExpectedDelays)
       /\ reconnectTimer = ExpectedDelays[reconnectAttempts]
  /\ StreamOpen => reconnectAttempts = 0

\* C9 witness: the sixth consecutive attempt is pending with the capped delay.
C9_Witness ==
  /\ reconnectAttempts = 6
  /\ reconnectTimer = 30000

\* no connection is in flight, no reconnect is pending, the counter is at
\* its maximum
Terminal ==
  /\ reconnectAttempts = maxReconnectAttempts
  /\ Len(conns) = 0
  /\ reconnectTimer = 0

\* C10 (as claimed): when the connection made by the tenth reconnect ends or
\* fails (not by an abort), the step leaves the connection-lost error, no
\* pending timer and no connection; and from a state with no connection, no
\* timer and the counter at its maximum every step leads to such a state
\* again.  An ok response without a readable body fails after the counter
\* was set back to 0, and is retried after 1 s.
C10_TerminalConnectionLost ==
  [][ /\ (reconnectAttempts = maxReconnectAttempts /\ ~aborted
            /\ Len(conns) = 1 /\ Len(conns') = 0) =>
           (streamError' = ConnectionLost /\ Terminal')
      /\ Terminal => Terminal' ]_vars

\* the number of connection attempts awaiting their fetch
Fetching(cs) == Cardinality({ k \in 1..Len(cs) : cs[k] = "fetching" })

\* C11: once the cleanup has aborted the pipeline no reconnect timer is
\* pending, and no later step arms one or starts a connection attempt: the
\* number of connections in flight and of attempts awaiting their fetch does
\* not grow.
C11_NoReconnectAfterAbort ==
  [][ /\ aborted' => reconnectTimer' = 0
      /\ aborted => (/\ Len(conns') <= Len(conns)
                     /\ Fetching(conns') <= Fetching(conns)) ]_vars

\* C11 witness: the pipeline was aborted after reconnects had been scheduled
\* (the counter is not 0), its connection has ended, and nothing is pending.
C11_Witness ==
  /\ aborted
  /\ reconnectAttempts >= 1
  /\ Len(conns) = 0
  /\ reconnectTimer = 0

(***************************************************************************)
(* Specification of the lane page around the cleanup of the stream effect: *)
(* frames of one thought arrive while the stream is read, the animation    *)
(* timers run, and the cleanup aborts the pipeline at any moment.  A       *)
(* rejected read hands no frame to processSSEEvent, so frames stop with    *)
(* the abort.                                                              *)
(***************************************************************************)
InitAbort == Init /\ page = "lane"

\* steps of the frames sent in this specification
AbortSteps == {"gather_context", "action_complete"}

NextAbort ==
  \/ /\ Render
     /\ UNCHANGED << parserVars, submitVars, windowVars, chunkVars, viewVars, pollVars >>
  \/ /\ ~aborted
     /\ ThoughtStart("th1", "t1", None)
     /\ UNCHANGED << parserVars, submitVars, windowVars, chunkVars, viewVars, pollVars >>
  \/ /\ ~aborted
     /\ \E s \in AbortSteps : StepUpdate(<< Entry(s, "th1", "t1", None) >>)
     /\ UNCHANGED << parserVars, submitVars, windowVars, chunkVars, viewVars, pollVars >>
  \/ /\ ProcessCollectedEvents
     /\ UNCHANGED << parserVars, submitVars, windowVars, chunkVars, viewVars, pollVars >>
  \/ /\ \E k \in 1..Len(anims) : AnimationStep(k)
     /\ UNCHANGED << parserVars, submitVars, windowVars, chunkVars, viewVars, pollVars >>
  \/ /\ \E k \in 1..Len(anims) : AnimationClear(k)
     /\ UNCHANGED << parserVars, submitVars, windowVars, chunkVars, viewVars, pollVars >>
  \/ /\ Cleanup
     /\ UNCHANGED << parserVars, submitVars, windowVars, chunkVars, viewVars, pollVars >>
  \/ /\ \E k \in 1..Len(conns) : AbortError(k)
     /\ UNCHANGED << parserVars, submitVars, windowVars, chunkVars, viewVars, pollVars >>

SpecAbort == InitAbort /\ [][NextAbort]_vars

\* C12 (as claimed): once the cleanup has aborted the pipeline, no
\* collection timer is pending, no animation sequence is running and the
\* lock is free, and no later step changes the active lane.
C12_TimersStopAfterAbort ==
  [][ /\ aborted' => (/\ ~collectionTimer'
                      /\ Len(anims') = 0
                      /\ ~currentlyAnimating')
      /\ aborted => activeStep' = activeStep ]_vars

(***************************************************************************)
(* Specification of the connection of the lane page with re-subscription:  *)
(* currentAgent changes, React runs the cleanup of the effect and then the *)
(* effect again, which creates a new controller, a new attempt counter and *)
(* calls connectStream.                                                    *)
(***************************************************************************)
MaxConns == 2

\* an effect run that starts without the cleanup of the run before it
Resubscribe_noabort(token) ==
  /\ ~aborted
  /\ Len(conns) < MaxConns
  /\ conns' = Append(conns, "fetching")
  /\ reconnectAttempts' = 0
  /\ UNCHANGED << reactVars, page, reconnectTimer, streamConnected, streamError, aborted,
                  streamVars, interactVars, flowVars, animVars >>

\* the connections of the effect run that was cleaned up
Aborted(cs) ==
  [k \in 1..Len(cs) |->
     IF cs[k] = "fetching" THEN "old_fetching"
     ELSE IF cs[k] = "reading" THEN "old_reading"
     ELSE cs[k]]

\* the cleanup (abort, clearTimeout) followed by the next run of the effect:
\* with an access token it creates a new controller and a new attempt
\* counter and calls connectStream; without one it returns at once, on the
\* lane page after setting the error
Resubscribe(token) ==
  /\ ~aborted
  /\ reconnectTimer' = 0
  /\ IF token
       THEN /\ Len(conns) < MaxConns
            /\ conns' = Append(Aborted(conns), "fetching")
            /\ reconnectAttempts' = 0
            /\ Put(Component)
       ELSE /\ conns' = Aborted(conns)
            /\ UNCHANGED reconnectAttempts
            /\ Put(IF page = "lane" THEN setStreamError(Component, AuthRequired)
                   ELSE Component)
  /\ UNCHANGED << besideConnection, streamVars >>

NextResub ==
  \/ NextConn
  \/ /\ \E token \in BOOLEAN : Resubscribe(token)
     /\ UNCHANGED << parserVars, submitVars, windowVars, chunkVars, viewVars, pollVars >>

SpecResub == InitConn /\ [][NextResub]_vars

\* the connections whose controller is not aborted
Live(cs) == { k \in 1..Len(cs) : ~Stale(cs[k]) }

\* C13: at most one connection belongs to a pipeline that is not aborted,
\* and it is never in flight together with a pending reconnect timer, so a
\* new attempt starts only when the one before has ended; at most one
\* connection is in its read loop; a re-subscription leaves every older
\* connection aborted; and a step that hands a frame to processSSEEvent is
\* taken while such a connection is reading.
C13_OneFeedingConnection ==
  [][ /\ Cardinality(Live(conns')) + (IF reconnectTimer' # 0 THEN 1 ELSE 0) <= 1
      /\ Cardinality({ k \in 1..Len(conns') : conns'[k] = "reading" }) <= 1
      /\ (Len(conns') > Len(conns)) =>
            \A k \in 1..Len(conns) : aborted \/ Stale(conns'[k])
      /\ (lastFrame' # lastFrame) =>
            \E k \in Live(conns) : conns[k] = "reading" ]_vars

\* C13 witness: after a re-subscription the connection of the old pipeline
\* is still open, aborted, while the new pipeline reads its stream.
C13_Witness ==
  /\ Len(conns) = 2
  /\ conns[1] = "old_reading"
  /\ conns[2] = "reading"
  /\ ~aborted

(***************************************************************************)
(* The SSE line parser of connectStream (both pages).  A line is a         *)
(* sequence of tokens, each standing for a run of characters: the field    *)
(* prefix "event:" or "data:", a blank " ", the line feed "\n" that joins   *)
(* data lines, and the pieces of the payload.                              *)
(***************************************************************************)
\* line.startsWith(prefix)
StartsWith(line, prefix) == Len(line) >= 1 /\ line[1] = prefix

\* line.slice(6) / line.slice(5): the line without its field prefix
SliceField(line) == SubSeq(line, 2, Len(line))

\* String.prototype.trim
RECURSIVE Trim(_)
Trim(cs) ==
  IF Len(cs) = 0 THEN cs
  ELSE IF cs[1] = " " THEN Trim(Tail(cs))
  ELSE IF cs[Len(cs)] = " " THEN Trim(SubSeq(cs, 1, Len(cs) - 1))
  ELSE cs

\* eventData = eventData ? eventData + '\n' + newData : newData
appendData(pending, newData) ==
  IF Len(pending) > 0 THEN pending \o << "\n" >> \o newData ELSE newData

\* if (eventType && eventData)
framePending == Len(eventType) > 0 /\ Len(eventData) > 0

\* the documents the stream carries: one sent on a single data line, one
\* split over two data lines
DocWhole == << "{doc}" >>
DocSplit == << "{head", "\n", "tail}" >>

\* the white space JSON allows around the tokens of a document
JsonWhiteSpace == {" ", "\n"}

\* JSON.parse(eventData): whether it returns, whether it returns an object
\* or null, and the fields of the object the handlers read: the
\* updated_thoughts and events arrays, the ids and the description of a
\* thought_start, the message of an error.  White space around the tokens
\* of the document is skipped.
JSONParse(cs) ==
  LET text == SelectSeq(cs, LAMBDA token : token \notin JsonWhiteSpace)
  IN  IF text = << "{doc}" >>
        THEN [ ok |-> TRUE, json |-> "object",
               updated_thoughts |-> << Entry("gather_context", "th1", "t1", None) >>,
               events |-> << Event("snapshot_and_context", "th1", "t1", None, None) >>,
               thought_id |-> "th1", task_id |-> "t1", task_description |-> None,
               message |-> Undefined ]
      ELSE IF text = << "{head", "tail}" >>
        THEN [ ok |-> TRUE, json |-> "object",
               updated_thoughts |->
                 << Entry("action_complete", "th1", "t1", "task_complete") >>,
               events |-> << Event("action_result", "th1", "t1", None, "task_complete") >>,
               thought_id |-> "th1", task_id |-> "t1", task_description |-> None,
               message |-> "boom" ]
      ELSE IF text = << "null" >>
        THEN [ ok |-> TRUE, json |-> "null", updated_thoughts |-> << >>,
               events |-> << >>, thought_id |-> Undefined, task_id |-> Undefined,
               task_description |-> None, message |-> Undefined ]
      ELSE [ ok |-> FALSE, json |-> "invalid", updated_thoughts |-> << >>,
             events |-> << >>, thought_id |-> Undefined, task_id |-> Undefined,
             task_description |-> None, message |-> Undefined ]

\* the lines the stream delivers
Lines ==
  { << "event:", " ", "step_update" >>,
    << "event:", " ", "keepalive" >>,
    << "event:", " ", "thought_start" >>,
    << "event:", " ", "error" >>,
    << "event:", " ", "connected" >>,
    << "data:", " ", "{doc}" >>,
    << "data:", " ", "{head" >>,
    << "data:", "tail}" >>,
    << "data:" >>,
    << >>,
    << ":", "comment" >> }

\* data: lines one event may carry
MaxDataLines == 2

\* the connection that is in its read loop
ReadingConn == CHOOSE k \in 1..Len(conns) : conns[k] = "reading"

\* the event types processSSEEvent has a branch for
FrameTypes == {"connected", "thought_start", "step_update", "keepalive", "error"}

\* the name of an event type, given as one token or as its characters
TypeName(type) ==
  IF Len(type) = 1 THEN type[1]
  ELSE IF \E name \in FrameTypes : type = Chars(name)
    THEN CHOOSE name \in FrameTypes : type = Chars(name)
  ELSE "other"

\* the frame as processSSEEvent sees it once JSON.parse has run, where the
\* branch of the type calls it: the updated_thoughts of a step_update, the
\* payload of a thought_start, the parsed data of an error.  Data that is
\* rejected, or null where an array or ids are read, leaves nothing to
\* handle.
ParsedFrame(type, data) ==
  IF TypeName(type) = "step_update"
    THEN Frame("step_update", JSONParse(data).updated_thoughts)
  ELSE IF TypeName(type) = "thought_start"
    THEN Frame("thought_start",
               IF JSONParse(data).json = "object"
                 THEN << [ thought_id |-> JSONParse(data).thought_id,
                           task_id |-> JSONParse(data).task_id,
                           task_description |-> JSONParse(data).task_description ] >>
                 ELSE << >>)
  ELSE IF TypeName(type) = "error"
    THEN Frame("error",
               IF JSONParse(data).json = "object"
                 THEN ErrorData(JSONParse(data).message)
               ELSE IF JSONParse(data).json = "null" THEN NullData
               ELSE BadData)
  ELSE Frame(TypeName(type), << >>)

\* (lane page) processSSEEvent is called by the read loop; the handler
\* calls of a run are counted
LaneDispatch(frame) ==
  /\ framesLeft > 0
  /\ framesLeft' = framesLeft - 1
  /\ LaneFrame(frame)

\* (interact page) a processEvent call that changes nothing: an event type
\* other than step_update
DispatchIgnored ==
  /\ framesLeft > 0
  /\ framesLeft' = framesLeft - 1
  /\ UNCHANGED << reactVars, page, lastFrame, connVars, interactVars, flowVars, animVars >>

\* (interact page) JSON.parse throws inside processEvent: the exception
\* leaves the read loop and is caught by the catch block of connectStream,
\* which logs it; the connectStream call is over
DispatchThrows ==
  /\ framesLeft > 0
  /\ framesLeft' = framesLeft - 1
  /\ conns' = RemoveAt(conns, ReadingConn)
  /\ UNCHANGED << reactVars, page, lastFrame, reconnectAttempts, reconnectTimer, streamConnected,
                  streamError, aborted, interactVars, flowVars, animVars >>

\* (interact page) whether processEvent(type, data) throws: JSON.parse
\* rejects the data of a step_update, or returns null, whose events cannot
\* be read.  processSSEEvent of the lane page catches what its branches
\* throw.
processEventThrows(type, data) ==
  /\ page = "interact"
  /\ TypeName(type) = "step_update"
  /\ JSONParse(data).json # "object"

\* processSSEEvent(type, data) on the lane page, processEvent(type, data) on
\* the interact page
Dispatch(type, data) ==
  /\ dispatched' = Frame(TypeName(type), data)
  /\ IF page = "lane"
       THEN LaneDispatch(ParsedFrame(type, data))
     ELSE IF TypeName(type) # "step_update"
       THEN DispatchIgnored
     ELSE IF ~processEventThrows(type, data)
       THEN InteractDispatch(JSONParse(data).events)
     ELSE DispatchThrows

\* a line that arrives by itself and hands a frame with store updates to
\* the handler does not arrive while MaxQueued updaters wait to be run
QueueOpen(type, data) ==
  (IF page = "lane"
     THEN /\ ParsedFrame(type, data).type \in TaskFrameTypes
          /\ ParsedFrame(type, data).data # << >>
     ELSE TypeName(type) = "step_update" /\ ~processEventThrows(type, data))
    => Len(waiting(updateQueue)) < MaxQueued

\* the parser and the connection do nothing to the stores
NoDispatch ==
  UNCHANGED << reactVars, page, streamVars, connVars, interactVars, flowVars, animVars, dispatched >>

\* a chunk of one line is read: one iteration of `for (const line of
\* lines)`; when the handler throws, the assignments that follow its call
\* are not reached
ParseLine(line) ==
  /\ StreamOpen
  /\ ~readerDone
  /\ lastLine' = line
  /\ UNCHANGED << readerDone, submitVars, windowVars, chunkVars, viewVars, pollVars >>
  /\ IF StartsWith(line, "event:")
       THEN IF framePending
              THEN /\ QueueOpen(eventType, eventData)
                   /\ Dispatch(eventType, eventData)
                   /\ IF processEventThrows(eventType, eventData)
                        THEN UNCHANGED << eventType, eventData, dataLineCount >>
                        ELSE /\ eventType' = Trim(SliceField(line))
                             /\ eventData' = << >>
                             /\ dataLineCount' = 0
              ELSE /\ NoDispatch
                   /\ eventType' = Trim(SliceField(line))
                   /\ eventData' = << >>
                   /\ dataLineCount' = 0
     ELSE IF StartsWith(line, "data:")
       THEN /\ dataLineCount < MaxDataLines
            /\ eventData' = appendData(eventData, Trim(SliceField(line)))
            /\ dataLineCount' = dataLineCount + 1
            /\ NoDispatch
            /\ UNCHANGED eventType
     ELSE IF line = << >>
       THEN IF framePending
              THEN /\ QueueOpen(eventType, eventData)
                   /\ Dispatch(eventType, eventData)
                   /\ IF processEventThrows(eventType, eventData)
                        THEN UNCHANGED << eventType, eventData, dataLineCount >>
                        ELSE /\ eventType' = << >>
                             /\ eventData' = << >>
                             /\ dataLineCount' = 0
              ELSE /\ NoDispatch
                   /\ UNCHANGED << eventType, eventData, dataLineCount >>
     ELSE /\ NoDispatch
          /\ UNCHANGED << eventType, eventData, dataLineCount >>

\* reader.read() reports done.  The lane page hands a pending frame to
\* processSSEEvent, marks the stream closed and schedules the reconnect;
\* the interact page leaves the loop and connectStream returns.
EndOfStream ==
  /\ readerDone' = TRUE
  /\ IF page = "lane"
       THEN /\ StreamEnd(ReadingConn,
                         IF framePending THEN ParsedFrame(eventType, eventData)
                         ELSE NoFrame)
            /\ IF framePending
                 THEN /\ dispatched' = Frame(TypeName(eventType), eventData)
                      /\ TaskFrame
                      /\ lastFrame' = ParsedFrame(eventType, eventData)
                 ELSE UNCHANGED << dispatched, streamVars >>
       ELSE /\ conns' = RemoveAt(conns, ReadingConn)
            /\ UNCHANGED << reactVars, page, streamVars, reconnectAttempts,
                            reconnectTimer, streamConnected, streamError, aborted,
                            interactVars, flowVars, animVars, dispatched >>

\* the read loop of the line parser sees the end of the stream
DoneSeen ==
  /\ StreamOpen
  /\ ~readerDone
  /\ EndOfStream
  /\ UNCHANGED << eventType, eventData, lastLine, dataLineCount, submitVars, windowVars,
                  chunkVars, viewVars, pollVars >>

(***************************************************************************)
(* Specification of one connection of either page reading its stream line  *)
(* by line until the stream ends.                                          *)
(***************************************************************************)
NextParse ==
  \/ \E line \in Lines : ParseLine(line)
  \/ DoneSeen
  \/ /\ Render
     /\ UNCHANGED << parserVars, submitVars, windowVars, chunkVars, viewVars, pollVars >>

SpecParse == Init /\ [][NextParse]_vars

\* a step in which the handler is called with a frame
DispatchStep == framesLeft' = framesLeft - 1

\* C14 (as claimed): the handler is called only while a type and data are
\* both pending, and with them; a data line that follows another data line
\* of the same event is appended after a line feed, the first one starts the
\* buffer; a blank line that emits leaves the type and the buffer empty (on
\* a connection that goes on reading).
C14_FrameAssembly ==
  [][ /\ DispatchStep =>
           (framePending /\ dispatched' = Frame(TypeName(eventType), eventData))
      /\ (dataLineCount' = dataLineCount + 1) =>
           eventData' = IF dataLineCount = 0
                          THEN Trim(SliceField(lastLine'))
                          ELSE eventData \o << "\n" >> \o Trim(SliceField(lastLine'))
      /\ (DispatchStep /\ ~readerDone' /\ lastLine' = << >> /\ StreamOpen') =>
           (eventType' = << >> /\ eventData' = << >>) ]_vars

\* C15 (as claimed): when the stream ends while a type and data are
\* pending, the step that sees the end hands that frame to the handler.
C15_FinalFrameEmitted ==
  [][ (~readerDone /\ readerDone' /\ framePending) =>
        (DispatchStep /\ dispatched' = Frame(TypeName(eventType), eventData)) ]_vars

\* C16 (as claimed): a step that hands the handler data that is not valid
\* JSON, before the stream has ended, changes no store and no animation
\* state, and the connection stays in its read loop.
C16_BadJsonDropped ==
  [][ (DispatchStep /\ ~JSONParse(dispatched'.data).ok /\ ~readerDone') =>
        (/\ UNCHANGED << tasks, flowVars, animVars >>
         /\ conns' = conns) ]_vars

(***************************************************************************)
(* Specification of the stream handlers under frames that cannot be        *)
(* attributed or classified: items without a thought id or a task id, and  *)
(* steps no lane knows, alone or ahead of a well-formed item in the same   *)
(* frame; and under the entries of a conscience step, whose result the     *)
(* lane page shows until its timeout clears it.                            *)
(***************************************************************************)
\* updated_thoughts entries without a thought id or without a task id: the
\* id is the empty string, null, or not there at all
UnattributedEntries ==
  { Entry("gather_context", None, "t1", None),
    Entry("gather_context", "th1", None, None),
    Entry("gather_context", "th1", Null, None),
    Entry("gather_context", Undefined, "t1", None) }

\* an entry of thought th1 whose step no lane knows
UnknownStepEntry == Entry("unknown_step", "th1", "t1", None)

\* well-formed entries of the two thoughts of task t1
KnownEntries ==
  { Entry("gather_context", "th1", "t1", None),
    Entry("gather_context", "th2", "t1", None) }

EdgeUpdatedThoughts ==
  { << e >> : e \in UnattributedEntries \cup {UnknownStepEntry} \cup KnownEntries } \cup
  { << e, Entry("gather_context", "th2", "t1", None) >> :
      e \in UnattributedEntries \cup {UnknownStepEntry} }

\* thought_start payloads: without a thought id, without a task id, complete
EdgeThoughtStarts ==
  { << None, "t1" >>, << "th1", None >>, << Null, "t1" >>, << "th1", Undefined >>,
    << "th1", "t1" >> }

\* events of the events[] form without a thought id or without a task id
UnattributedEvents ==
  { Event("snapshot_and_context", None, "t1", None, None),
    Event("snapshot_and_context", "th1", None, None, None),
    Event("snapshot_and_context", Undefined, "t1", None, None),
    Event("snapshot_and_context", "th1", Null, None, None) }

EdgeEventArrays ==
  { << e >> : e \in UnattributedEvents } \cup
  { << Event("snapshot_and_context", th, "t1", None, None) >> : th \in ThoughtIds } \cup
  { << e, Event("snapshot_and_context", "th2", "t1", None, None) >> :
      e \in UnattributedEvents }

NextEdge ==
  \/ /\ Render
     /\ UNCHANGED << parserVars, submitVars, windowVars, chunkVars, viewVars, pollVars >>
  \/ /\ \E p \in EdgeThoughtStarts : ThoughtStart(p[1], p[2], None)
     /\ UNCHANGED << parserVars, submitVars, windowVars, chunkVars, viewVars, pollVars >>
  \/ /\ \E entries \in EdgeUpdatedThoughts : StepUpdate(entries)
     /\ UNCHANGED << parserVars, submitVars, windowVars, chunkVars, viewVars, pollVars >>
  \/ /\ \E entry \in ConscienceEntries : StepUpdate(<< entry >>)
     /\ UNCHANGED << parserVars, submitVars, windowVars, chunkVars, viewVars, pollVars >>
  \/ /\ ConscienceTimeout
     /\ UNCHANGED << parserVars, submitVars, windowVars, chunkVars, viewVars, pollVars >>
  \/ /\ \E events \in EdgeEventArrays : ProcessEvent(events)
     /\ UNCHANGED << parserVars, submitVars, windowVars, chunkVars, viewVars, pollVars >>
  \/ /\ ProcessCollectedEvents
     /\ UNCHANGED << parserVars, submitVars, windowVars, chunkVars, viewVars, pollVars >>
  \/ /\ \E k \in 1..Len(anims) : AnimationStep(k)
     /\ UNCHANGED << parserVars, submitVars, windowVars, chunkVars, viewVars, pollVars >>
  \/ /\ \E k \in 1..Len(anims) : AnimationClear(k)
     /\ UNCHANGED << parserVars, submitVars, windowVars, chunkVars, viewVars, pollVars >>

SpecEdge == Init /\ [][NextEdge]_vars

\* every item of the frame lacks a thought id or a task id
Unattributed(frame) ==
  /\ frame.type \in {"thought_start", "step_update"}
  /\ \A k \in 1..Len(frame.data) :
       ~truthy(frame.data[k].thought_id) \/ ~truthy(frame.data[k].task_id)

\* C17 (as claimed): a frame step whose items all lack a thought id or a
\* task id leaves the stores of either page and the animation state as they
\* were and passes no update of a store to React: no task and no thought is
\* created, no record changes, no signal is collected.
C17_UnattributedDropped ==
  [][ (FrameStep /\ Unattributed(lastFrame')) =>
        UNCHANGED << tasks, flowVars, animVars, updateQueue >> ]_vars

\* stepsReached of a thought in a flow store, empty when it is not tracked
stepsReachedIn(store, t, th) ==
  IF t \in DOMAIN store /\ th \in DOMAIN store[t].thoughts
    THEN store[t].thoughts[th].stepsReached
    ELSE {}

\* the buffered signals of one thought
SignalsOf(collection, th) == SelectSeq(collection, LAMBDA e : e.thoughtId = th)

\* C18: a step_update handled on the lane page whose entry for thought th1
\* carries a step no lane knows collects no signal for th1 and touches
\* neither the connection nor the error state; an entry of thought th2 that
\* follows in the same frame is processed: its signal is collected if the
\* lock is free, and the updaters of both entries go to React in the order
\* of the entries (each is queued for the render, unless React runs the
\* first one inside its setter call).
\* When React runs the updater of an entry, the thought is recorded at its
\* step, with the step's lane, if it has one, in stepsReached; for the step
\* no lane knows stepsReached of the thought stays as it was (empty for a
\* thought the run creates).
C18_UnknownStepNoLane ==
  /\ [][ (FrameStep /\ page = "lane" /\ lastFrame'.type = "step_update"
            /\ lastFrame'.data[1] = UnknownStepEntry) =>
           /\ SignalsOf(eventCollection', "th1") = SignalsOf(eventCollection, "th1")
           /\ UNCHANGED connVars
           /\ LET calls == updatersOf(lastFrame')
              IN  /\ Len(calls) = Len(lastFrame'.data) + 1
                  /\ \/ /\ Ran = << >>
                        /\ waiting(updateQueue') = waiting(updateQueue) \o calls
                     \/ /\ Ran = << calls[1] >>
                        /\ waiting(updateQueue') = Tail(calls)
           /\ (Len(lastFrame'.data) = 2 /\ ~currentlyAnimating) =>
                SignalsOf(eventCollection', "th2")
                  = Append(SignalsOf(eventCollection, "th2"),
                           [step |-> "SNAPSHOT_AND_CONTEXT", thoughtId |-> "th2"]) ]_vars
  /\ [][ \A i \in 1..Len(Applied) :
           LET a == Applied[i]
           IN  a.u.hook = "activeTasks" =>
                 /\ Recorded(a)
                 /\ a.u.arg.step = UnknownStepEntry.current_step =>
                      stepsReachedIn(a.post.flow.tasks, a.u.arg.taskId, a.u.arg.thoughtId)
                        = stepsReachedIn(a.pre.flow.tasks, a.u.arg.taskId, a.u.arg.thoughtId)
     ]_vars

\* C18 witness: thought th1 had reached a lane, then a frame carried an
\* unknown step for th1 ahead of a known step for th2: th1 kept its lane and
\* is at the unknown step, th2 got its own lane.
C18_Witness ==
  /\ page = "lane"
  /\ framesLeft = MaxFrames - 2
  /\ lastFrame = Frame("step_update",
                       << UnknownStepEntry, Entry("gather_context", "th2", "t1", None) >>)
  /\ updateQueue = << >>
  /\ activeTasks["t1"].thoughts["th1"].stepsReached = {"SNAPSHOT_AND_CONTEXT"}
  /\ activeTasks["t1"].thoughts["th1"].currentStep = "unknown_step"
  /\ activeTasks["t1"].thoughts["th2"].stepsReached = {"SNAPSHOT_AND_CONTEXT"}

(***************************************************************************)
(* Specification of the interact page with submissions: responses of       *)
(* submitMessage reach onSuccess in any order relative to the stream       *)
(* events.                                                                 *)
(***************************************************************************)
MessageIds == {"m1", "m2"}

\* the response of cirisClient.agent.submitMessage
Responses ==
  [ accepted : BOOLEAN, task_id : TaskIds \cup {None}, message_id : MessageIds \cup {None} ]

\* a test that looks at the accepted flag alone
isAccepted_flagonly(data) == data.accepted

\* if (data.accepted && data.task_id && data.message_id)
isAccepted(data) == data.accepted /\ data.task_id # None /\ data.message_id # None

\* the texts typed into the input box: none, a blank, a word
Texts == { << >>, << " " >>, << "hello" >> }

\* handleSubmit of the interact page with a message that is not blank:
\* setMessage('') and sendMessageMutation.mutate(msgToSend).  The submit
\* button is disabled while the mutation is pending.
HandleSubmit ==
  /\ page = "interact"
  /\ ~submitPending
  /\ Trim(message) # << >>
  /\ message' = << >>
  /\ submitPending' = TRUE
  /\ renderPending' = TRUE
  /\ UNCHANGED << page, streamVars, connVars, interactVars, flowVars, animVars,
                  messageToTaskMapRef, updateQueue >>

\* sendMessageMutation.onError(error): a toast
SubmitError ==
  /\ page = "interact"
  /\ submitPending
  /\ submitPending' = FALSE
  /\ UNCHANGED << page, streamVars, connVars, interactVars, flowVars, animVars,
                  messageToTaskMapRef, message, reactVars >>

\* sendMessageMutation.onSuccess(data): an accepted response is recorded
\* in the two state hooks, by updaters, and in the two refs; no response is
\* handled while more than MaxQueued updaters wait to be run
SubmitSuccess(data) ==
  /\ page = "interact"
  /\ submitPending
  /\ submitPending' = FALSE
  /\ lastFrame' = Frame("submit_response", << data >>)
  /\ IF isAccepted(data)
       THEN /\ Len(waiting(updateQueue)) <= MaxQueued
            /\ \E c \in Components :
                 Put(setState(setState(c, Updater("ourTaskIds", data.task_id)),
                              Updater("messageToTaskMap",
                                      [ message_id |-> data.message_id,
                                        task_id |-> data.task_id ])))
            /\ ourTaskIdsRef' = ourTaskIdsRef \cup {data.task_id}
            /\ messageToTaskMapRef' = MapSet(messageToTaskMapRef, data.message_id, data.task_id)
       ELSE /\ Put(Component)
            /\ UNCHANGED << ourTaskIdsRef, messageToTaskMapRef >>
  /\ UNCHANGED << page, framesLeft, currentlyAnimating, anims, activeStep, conns,
                  reconnectAttempts, reconnectTimer, aborted, parserVars, windowVars,
                  chunkVars, viewVars, pollVars, message >>

\* the responses of this specification: accepted ones that map m1 to
\* either task and m2 to t2, accepted ones that lack the task id or the
\* message id, and one that is not accepted
SubmitResponses ==
  { r \in Responses :
      IF r.accepted
        THEN \/ r.message_id = "m1"
             \/ r.task_id = "t2"
        ELSE r.message_id = "m1" /\ r.task_id = "t1" }

\* the events arrays of this specification: one event of one thought of
\* either task
SubmitEventArrays ==
  { << Event("snapshot_and_context", "th1", t, None, None) >> : t \in TaskIds }

InitSubmit == Init /\ page = "interact"

\* connectStream of the interact page past its fetch: the read loop starts
InteractFetchOk(k) ==
  /\ page = "interact"
  /\ k \in 1..Len(conns)
  /\ conns[k] = "fetching"
  /\ conns' = [conns EXCEPT ![k] = "reading"]
  /\ UNCHANGED << reactVars, page, reconnectAttempts, reconnectTimer, streamConnected, streamError,
                  aborted, streamVars, interactVars, flowVars, animVars >>

\* the catch block of connectStream of the interact page for an error that
\* is not an AbortError: it logs and the call is over; no error is shown
\* and no reconnect is scheduled
InteractCatch(k) ==
  /\ page = "interact"
  /\ conns' = RemoveAt(conns, k)
  /\ UNCHANGED << reactVars, page, reconnectAttempts, reconnectTimer, streamConnected, streamError,
                  aborted, streamVars, interactVars, flowVars, animVars >>

\* fetch rejects, or resolves with a response that is not ok or has no body
InteractFetchFail(k) ==
  /\ k \in 1..Len(conns)
  /\ conns[k] = "fetching"
  /\ InteractCatch(k)

\* reader.read() rejects with a transport error
InteractReadFail(k) ==
  /\ k \in 1..Len(conns)
  /\ conns[k] = "reading"
  /\ InteractCatch(k)

NextSubmit ==
  \/ /\ Render
     /\ UNCHANGED << parserVars, submitVars, windowVars, chunkVars, viewVars, pollVars >>
  \/ /\ \E text \in Texts : MessageChange(text)
     /\ UNCHANGED << parserVars, windowVars, chunkVars, viewVars, pollVars >>
  \/ /\ HandleSubmit
     /\ UNCHANGED << parserVars, windowVars, chunkVars, viewVars, pollVars >>
  \/ /\ SubmitError
     /\ UNCHANGED << parserVars, windowVars, chunkVars, viewVars, pollVars >>
  \/ /\ \E k \in 1..MaxConns : InteractFetchFail(k)
     /\ UNCHANGED << parserVars, submitVars, windowVars, chunkVars, viewVars, pollVars >>
  \/ /\ \E k \in 1..MaxConns : InteractReadFail(k)
     /\ UNCHANGED << parserVars, submitVars, windowVars, chunkVars, viewVars, pollVars >>
  \/ \E data \in SubmitResponses : SubmitSuccess(data)
  \/ /\ \E events \in SubmitEventArrays : ProcessEvent(events)
     /\ UNCHANGED << parserVars, submitVars, windowVars, chunkVars, viewVars, pollVars >>
  \/ /\ \E token \in BOOLEAN : Resubscribe(token)
     /\ UNCHANGED << parserVars, submitVars, windowVars, chunkVars, viewVars, pollVars >>
  \/ /\ \E k \in 1..MaxConns : InteractFetchOk(k)
     /\ UNCHANGED << parserVars, submitVars, windowVars, chunkVars, viewVars, pollVars >>

SpecSubmit == InitSubmit /\ [][NextSubmit]_vars

\* C19: a step that handles a submission response (after one, any step in
\* which React does not render) leaves the task store as it was; if the response is accepted and carries a task id and a message
\* id, the step records message_id -> task_id and adds the task id to the
\* locally-originated set; otherwise it leaves both as they were.
C19_CorrelationOnlyWhenAccepted ==
  [][ (lastFrame'.type = "submit_response" /\ ~RenderStep) =>
        LET data == lastFrame'.data[1]
        IN  /\ tasks' = tasks
            /\ IF data.accepted /\ data.task_id # None /\ data.message_id # None
                 THEN /\ messageToTaskMapRef'
                           = MapSet(messageToTaskMapRef, data.message_id, data.task_id)
                      /\ ourTaskIdsRef' = ourTaskIdsRef \cup {data.task_id}
                 ELSE UNCHANGED << messageToTaskMapRef, ourTaskIdsRef >> ]_vars

\* C19 witness: the response handled last was accepted but carried no task
\* id, and nothing was recorded.
C19_Witness ==
  /\ lastFrame = Frame("submit_response",
                       << [accepted |-> TRUE, task_id |-> None, message_id |-> "m1"] >>)
  /\ messageToTaskMapRef = EmptyMap
  /\ ourTaskIdsRef = {}
  /\ tasks = EmptyMap

\* C20: a task id enters the locally-originated set only in a step that
\* handles an accepted response carrying it; a task created by the run of
\* an updater gets isOurs true exactly if its id was in that set before the
\* run; and the isOurs flag of a task in the store never changes.
C20_IsOursFixedAtCreation ==
  [][ /\ \A t \in ourTaskIdsRef' \ ourTaskIdsRef :
           /\ lastFrame'.type = "submit_response"
           /\ lastFrame'.data[1].accepted
           /\ lastFrame'.data[1].task_id = t
      /\ \A i \in 1..Len(EventsApplied) :
           \A t \in DOMAIN EventsApplied[i].post.tasks \ DOMAIN EventsApplied[i].pre.tasks :
             EventsApplied[i].post.tasks[t].isOurs <=> t \in ourTaskIdsRef
      /\ \A t \in DOMAIN tasks :
           t \in DOMAIN tasks' /\ tasks'[t].isOurs = tasks[t].isOurs ]_vars

\* C20 witness: task t1 was acknowledged before its first event and is
\* ours; task t2 was acknowledged after its first event and is not.
C20_Witness ==
  /\ DOMAIN tasks = {"t1", "t2"}
  /\ tasks["t1"].isOurs
  /\ ~tasks["t2"].isOurs
  /\ ourTaskIdsRef = {"t1", "t2"}

\* C21: every correlation entry message_id -> task_id that exists before a
\* step (a submission response, a batch of stream events, a re-subscription,
\* a render) exists after it with the same task id.
C21_CorrelationEntryStable ==
  [][ \A m \in DOMAIN messageToTaskMapRef :
        /\ m \in DOMAIN messageToTaskMapRef'
        /\ messageToTaskMapRef'[m] = messageToTaskMapRef[m] ]_vars

(***************************************************************************)
(* Specification of the colour assignment: more distinct tasks arrive than *)
(* the palette of the page has colours.  Every frame is about one task,    *)
(* either one of the first two tasks once it is in the store or one of the *)
(* two unseen tasks with the lowest numbers, so that the tasks arrive in   *)
(* many orders and a known task is heard of again.                         *)
(***************************************************************************)
ColorTasks == << "c1", "c2", "c3", "c4", "c5", "c6", "c7", "c8", "c9" >>

\* the palette of the mounted page
Palette == IF page = "lane" THEN taskColors ELSE taskColorsInteract

\* the task records of the mounted page
Store == IF page = "lane" THEN activeTasks ELSE tasks

\* frames for one task more than the palette has colours and for one event
\* of a task that is already known
ColorFrames == Len(Palette) + 2

Unseen == { i \in 1..Len(ColorTasks) : ColorTasks[i] \notin DOMAIN Store }

\* the tasks a frame may be about: the two known first, and the next two
\* that are not in the store
Arrivals ==
  (DOMAIN Store \cap {"c1", "c2"})
    \cup { ColorTasks[i] : i \in { j \in Unseen : Cardinality({ l \in Unseen : l < j }) < 2 } }

\* the state of a page after mount: the frames still to come, the
\* connections in flight and what the connection hooks show
MountedAs(frames, open, connected, error) ==
  /\ framesLeft = frames
  /\ lastFrame = NoFrame
  /\ tasks = EmptyMap
  /\ ourTaskIds = {}
  /\ messageToTaskMap = EmptyMap
  /\ ourTaskIdsRef = {}
  /\ activeTasks = EmptyMap
  /\ taskColorIndex = 0
  /\ completingTasks = {}
  /\ completingTimers = [t \in TaskIds |-> 0]
  /\ recentlyCompletedTasks = << >>
  /\ taskData = EmptyMap
  /\ conscienceResult = << >>
  /\ conscienceTimers = 0
  /\ eventCollection = << >>
  /\ collectionTimer = FALSE
  /\ currentlyAnimating = FALSE
  /\ anims = << >>
  /\ activeStep = None
  /\ conns = open
  /\ reconnectAttempts = 0
  /\ reconnectTimer = 0
  /\ streamConnected = connected
  /\ streamError = error
  /\ aborted = FALSE
  /\ ParserInit
  /\ HooksInit
  /\ messageToTaskMapRef = EmptyMap
  /\ message = << >>
  /\ submitPending = FALSE
  /\ windowTimers = << >>

\* the state of a page after mount with its stream open and a number of
\* frames still to come
MountedRest(frames) == MountedAs(frames, << "reading" >>, TRUE, None)

\* the state of either page after mount with the stream open
MountedCore(frames) == page \in {"lane", "interact"} /\ MountedRest(frames)

\* the same with no bytes to come on the stream
Mounted(frames) == MountedCore(frames) /\ ChunkInit(<< >>) /\ ViewInit /\ NoPoll

InitColor == Mounted(ColorFrames)

NextColor ==
  \/ /\ Render
     /\ UNCHANGED << parserVars, submitVars, windowVars, chunkVars, viewVars, pollVars >>
  \/ /\ \E t \in Arrivals :
          \E a \in (IF t = "c1" THEN {None, "speak"} ELSE {None}) :
            StepUpdate(<< Entry("unknown_step", "th1", t, a) >>)
     /\ UNCHANGED << parserVars, submitVars, windowVars, chunkVars, viewVars, pollVars >>
  \/ /\ \E t \in Arrivals :
          ProcessEvent(<< Event("snapshot_and_context", "th1", t, None, None) >>)
     /\ UNCHANGED << parserVars, submitVars, windowVars, chunkVars, viewVars, pollVars >>

SpecColor == InitColor /\ [][NextColor]_vars

\* the task store of the mounted page in a component record
StoreOf(c) == IF page = "lane" THEN c.flow.tasks ELSE c.tasks

\* the tasks created by the runs of event updaters in this step
CreatedByRuns ==
  UNION { DOMAIN StoreOf(EventsApplied[i].post) \ DOMAIN StoreOf(EventsApplied[i].pre) :
            i \in 1..Len(EventsApplied) }

\* C22: when React runs the updater of an event, a task the run creates
\* gets the palette colour at position (number of tasks in the store before
\* the run) mod (palette size), and the run creates no other task; the
\* round-robin index is the number of tasks in the store the run starts
\* from, and over every step it advances by the number of tasks the runs of
\* the step created, so not at all for an event about a known task; the
\* colour of a task of the store never changes, and with no update waiting
\* for a render the index is the number of tasks in the store.
C22_ColourByArrivalRank ==
  [][ /\ \A i \in 1..Len(EventsApplied) :
           LET before == StoreOf(EventsApplied[i].pre)
               after == StoreOf(EventsApplied[i].post)
           IN  /\ EventsApplied[i].pre.flow.colorIndex = Cardinality(DOMAIN before)
               /\ \A t \in DOMAIN after \ DOMAIN before :
                     /\ DOMAIN after = DOMAIN before \cup {t}
                     /\ after[t].color
                          = Palette[(Cardinality(DOMAIN before) % Len(Palette)) + 1]
      /\ \A t \in DOMAIN Store :
           t \in DOMAIN Store' /\ Store'[t].color = Store[t].color
      /\ taskColorIndex' = taskColorIndex + Cardinality(CreatedByRuns)
      /\ ~renderPending => taskColorIndex = Cardinality(DOMAIN Store) ]_vars

\* C22 witness: one task more than the palette has colours has arrived, c2
\* ahead of c1, a frame about a known task was handled on the way, and the
\* task that arrived last has the first colour of the palette again.
C22_Witness ==
  /\ Cardinality(DOMAIN Store) = Len(Palette) + 1
  /\ framesLeft = 0
  /\ {"c1", "c2"} \subseteq DOMAIN Store
  /\ Store["c2"].color = Palette[1]
  /\ Store["c1"].color = Palette[2]
  /\ \E t \in DOMAIN Store \ {"c2"} : /\ Store[t].color = Palette[1]
                                      /\ lastFrame.data[1].task_id = t

(***************************************************************************)
(* Specification of the arrival orders: the five stage events of thought   *)
(* th1 of task t1 arrive once each, in any order.                          *)
(***************************************************************************)
\* the stage events: the current_step of the lane page's step_update entry,
\* the event_type of the interact page's event, and the action_executed both
\* carry
OrderStages ==
  { [step |-> "gather_context", type |-> "snapshot_and_context", action |-> None],
    [step |-> "dma_results", type |-> "dma_results", action |-> None],
    [step |-> "aspdma_result", type |-> "aspdma_result", action |-> None],
    [step |-> "conscience_result", type |-> "conscience_result", action |-> None],
    [step |-> "action_complete", type |-> "action_result", action |-> "task_complete"] }

\* the stage names a component holds for a thought of a task: stepsReached
\* on the lane page, the keys of stages on the interact page
ReachedIn(c, t, th) ==
  IF page = "lane"
    THEN IF t \in DOMAIN c.flow.tasks /\ th \in DOMAIN c.flow.tasks[t].thoughts
           THEN c.flow.tasks[t].thoughts[th].stepsReached ELSE {}
    ELSE IF t \in DOMAIN c.tasks
           THEN UNION { DOMAIN c.tasks[t].thoughts[k].stages :
                          k \in { i \in 1..Len(c.tasks[t].thoughts) :
                                    c.tasks[t].thoughts[i].thoughtId = th } }
           ELSE {}

\* the stage names the store holds for a thought of a task
ReachedOf(t, th) == ReachedIn(Component, t, th)

\* the completed flag of a task, false while the store has no such task
CompletedOf(t) == t \in DOMAIN Store /\ Store[t].completed

\* the name under which the page records a stage event
StageKey(s) ==
  IF page = "lane"
    THEN CASE s.step = "gather_context" -> "SNAPSHOT_AND_CONTEXT"
           [] s.step = "dma_results" -> "DMA_RESULTS"
           [] s.step = "aspdma_result" -> "ASPDMA_RESULT"
           [] s.step = "conscience_result" -> "CONSCIENCE_RESULT"
           [] s.step = "action_complete" -> "ACTION_RESULT"
    ELSE s.type

\* the stage events that have not arrived yet: those the store does not
\* hold and will not hold when the updates that wait are rendered
Pending ==
  { s \in OrderStages : StageKey(s) \notin ReachedIn(render(Component), "t1", "th1") }

InitOrder == Mounted(Cardinality(OrderStages))

NextOrder ==
  \/ /\ Render
     /\ UNCHANGED << parserVars, submitVars, windowVars, chunkVars, viewVars, pollVars >>
  \/ /\ \E s \in Pending : StepUpdate(<< Entry(s.step, "th1", "t1", s.action) >>)
     /\ UNCHANGED << parserVars, submitVars, windowVars, chunkVars, viewVars, pollVars >>
  \/ /\ \E s \in Pending : ProcessEvent(<< Event(s.type, "th1", "t1", None, s.action) >>)
     /\ UNCHANGED << parserVars, submitVars, windowVars, chunkVars, viewVars, pollVars >>

SpecOrder == InitOrder /\ [][NextOrder]_vars

\* the updates of stage events that wait for the render, their updater run
\* or not
QueuedEvents ==
  SelectSeq(updateQueue,
            LAMBDA u : \/ u.hook \in {"activeTasks", "tasks"}
                       \/ u.hook = "computed" /\ u.of \in {"activeTasks", "tasks"})

\* C23: whatever the order of arrival, every stage event that has arrived
\* and that React has rendered is in the thought's stagesReached (one stage
\* per handled frame, less those that wait for the render), the task is
\* completed exactly if the terminal event with the completion sentinel is
\* among them, and once all five have arrived and none waits the thought
\* has all five stages and the task is completed.
C23_OrderIndependent ==
  /\ Cardinality(ReachedOf("t1", "th1"))
       = Cardinality(OrderStages) - framesLeft - Len(QueuedEvents)
  /\ ReachedOf("t1", "th1") \subseteq { StageKey(s) : s \in OrderStages }
  /\ CompletedOf("t1")
       <=> (IF page = "lane" THEN "ACTION_RESULT" ELSE "action_result")
              \in ReachedOf("t1", "th1")
  /\ (framesLeft = 0 /\ QueuedEvents = << >>) =>
       /\ ReachedOf("t1", "th1") = { StageKey(s) : s \in OrderStages }
       /\ CompletedOf("t1")

\* C23 witness: the event of the earliest lane arrived last and the thought
\* has all five stages; on the lane page the animation buffer shows that the
\* terminal event arrived first.
C23_Witness ==
  /\ framesLeft = 0
  /\ lastFrame.data[1].thought_id = "th1"
  /\ \/ page = "lane" /\ lastFrame.data[1].current_step = "gather_context"
     \/ page = "interact" /\ lastFrame.data[1].event_type = "snapshot_and_context"
  /\ Cardinality(ReachedOf("t1", "th1")) = 5
  /\ IF page = "lane"
       THEN eventCollection[1].step = "ACTION_RESULT"
       ELSE TRUE

(***************************************************************************)
(* Specification of the control frames of the lane page: connected,        *)
(* keepalive and error frames arrive between the task frames and the       *)
(* timers of the animation.                                                *)
(***************************************************************************)
\* a keepalive that empties the animation buffer
KeepaliveFrame_flush ==
  /\ page = "lane"
  /\ StreamOpen
  /\ lastFrame' = Frame("keepalive", << >>)
  /\ eventCollection' = << >>
  /\ UNCHANGED << page, framesLeft, connVars, interactVars, flowVars, collectionTimer,
                  currentlyAnimating, anims, activeStep, reactVars >>

\* processSSEEvent('keepalive', ...): logs
KeepaliveFrame ==
  /\ UNCHANGED framesLeft
  /\ LaneFrame(Frame("keepalive", << >>))

\* processSSEEvent('error', ...) with data JSON.parse rejects: the catch
\* block logs
ErrorFrameUnparsable ==
  /\ UNCHANGED framesLeft
  /\ LaneFrame(Frame("error", BadData))

InitControl == Mounted(MaxFrames) /\ page = "lane"

NextControl ==
  \/ /\ Render
     /\ UNCHANGED << parserVars, submitVars, windowVars, chunkVars, viewVars, pollVars >>
  \/ /\ ErrorFrameNull
     /\ UNCHANGED << parserVars, submitVars, windowVars, chunkVars, viewVars, pollVars >>
  \/ /\ \E t \in TaskIds : ThoughtStart("th1", t, None)
     /\ UNCHANGED << parserVars, submitVars, windowVars, chunkVars, viewVars, pollVars >>
  \/ /\ \E step \in {"gather_context", "action_complete"}, a \in {None, "task_complete"} :
          StepUpdate(<< Entry(step, "th1", "t1", a) >>)
     /\ UNCHANGED << parserVars, submitVars, windowVars, chunkVars, viewVars, pollVars >>
  \/ /\ \E t \in TaskIds : CompletingTimeout(t)
     /\ UNCHANGED << parserVars, submitVars, windowVars, chunkVars, viewVars, pollVars >>
  \/ /\ ProcessCollectedEvents
     /\ UNCHANGED << parserVars, submitVars, windowVars, chunkVars, viewVars, pollVars >>
  \/ /\ \E k \in 1..Len(anims) : AnimationStep(k)
     /\ UNCHANGED << parserVars, submitVars, windowVars, chunkVars, viewVars, pollVars >>
  \/ /\ \E k \in 1..Len(anims) : AnimationClear(k)
     /\ UNCHANGED << parserVars, submitVars, windowVars, chunkVars, viewVars, pollVars >>
  \/ /\ ConnectedFrame
     /\ UNCHANGED << parserVars, submitVars, windowVars, chunkVars, viewVars, pollVars >>
  \/ /\ KeepaliveFrame
     /\ UNCHANGED << parserVars, submitVars, windowVars, chunkVars, viewVars, pollVars >>
  \/ /\ \E m \in ErrorMessages : ErrorFrame(m)
     /\ UNCHANGED << parserVars, submitVars, windowVars, chunkVars, viewVars, pollVars >>
  \/ /\ ErrorFrameUnparsable
     /\ UNCHANGED << parserVars, submitVars, windowVars, chunkVars, viewVars, pollVars >>

SpecControl == InitControl /\ [][NextControl]_vars

\* C24: a step that handles a connected, keepalive or error frame leaves
\* the task/thought store, the per-thought step data and the animation
\* buffer, lock and timers as they were; a connected frame sets the
\* transport connected and clears the stream error and changes nothing
\* else; an error frame sets the stream error if its data parses to a
\* value whose message can be read (not when JSON.parse rejects it or
\* yields null) and changes nothing else; a keepalive frame changes nothing.
C24_ControlFramesKeepStore ==
  [][ (lastFrame' # lastFrame /\ lastFrame'.type \in {"connected", "keepalive", "error"}) =>
        /\ UNCHANGED << flowVars, animVars, interactVars, framesLeft >>
        /\ UNCHANGED << conns, reconnectAttempts, reconnectTimer, aborted >>
        /\ lastFrame'.type = "connected" => streamConnected' /\ streamError' = None
        /\ lastFrame'.type = "keepalive" => UNCHANGED << streamConnected, streamError >>
        /\ lastFrame'.type = "error" =>
             /\ UNCHANGED streamConnected
             /\ streamError' = IF lastFrame'.data[1].json = "object"
                                 THEN StreamErrorMessage(lastFrame'.data[1])
                               ELSE streamError ]_vars

\* C24 witness: an error frame was handled while a completed task was in
\* the store, a signal was in the animation buffer and the collection window
\* was open.
C24_Witness ==
  /\ lastFrame = Frame("error", ErrorData("boom"))
  /\ streamError = StreamErrorMessage(ErrorData("boom")[1])
  /\ "t1" \in DOMAIN activeTasks
  /\ activeTasks["t1"].completed
  /\ eventCollection # << >>
  /\ collectionTimer

(***************************************************************************)
(* Specification of the reconnect controller under fair scheduling, with   *)
(* the page staying mounted.  Every fetch settles, the reconnect timeout   *)
(* fires once armed, and no connection stays open: every open stream ends  *)
(* or fails.                                                               *)
(***************************************************************************)
NextRetry ==
  \/ /\ Render
     /\ UNCHANGED << parserVars, submitVars, windowVars, chunkVars, viewVars, pollVars >>
  \/ /\ \E k \in 1..Len(conns) : FetchOk(k)
     /\ UNCHANGED << parserVars, submitVars, windowVars, chunkVars, viewVars, pollVars >>
  \/ /\ \E k \in 1..Len(conns), e \in FetchErrors : FetchFail(k, e)
     /\ UNCHANGED << parserVars, submitVars, windowVars, chunkVars, viewVars, pollVars >>
  \/ /\ \E k \in 1..Len(conns) : FetchNoBody(k)
     /\ UNCHANGED << parserVars, submitVars, windowVars, chunkVars, viewVars, pollVars >>
  \/ /\ \E k \in 1..Len(conns) : ReadFail(k)
     /\ UNCHANGED << parserVars, submitVars, windowVars, chunkVars, viewVars, pollVars >>
  \/ /\ \E k \in 1..Len(conns), pending \in PendingFrames : StreamEnds(k, pending)
     /\ UNCHANGED << parserVars, submitVars, windowVars, chunkVars, viewVars, pollVars >>
  \/ /\ ReconnectTimeout
     /\ UNCHANGED << parserVars, submitVars, windowVars, chunkVars, viewVars, pollVars >>
  \/ /\ ConnectedFrame
     /\ UNCHANGED << parserVars, submitVars, windowVars, chunkVars, viewVars, pollVars >>
  \/ /\ \E m \in ErrorMessages : ErrorFrame(m)
     /\ UNCHANGED << parserVars, submitVars, windowVars, chunkVars, viewVars, pollVars >>
  \/ /\ ThoughtStart("th1", "t1", None)
     /\ UNCHANGED << parserVars, submitVars, windowVars, chunkVars, viewVars, pollVars >>

\* the fetch promise settles
FetchSettles ==
  /\ \E k \in 1..Len(conns) :
       FetchOk(k) \/ FetchNoBody(k) \/ \E e \in FetchErrors : FetchFail(k, e)
  /\ UNCHANGED << parserVars, submitVars, windowVars, chunkVars, viewVars, pollVars >>

\* the open stream ends or fails
StreamCloses ==
  /\ \E k \in 1..Len(conns) :
       ReadFail(k) \/ \E pending \in PendingFrames : StreamEnds(k, pending)
  /\ UNCHANGED << parserVars, submitVars, windowVars, chunkVars, viewVars, pollVars >>

\* the reconnect timeout fires
TimerFires == ReconnectTimeout /\ UNCHANGED << parserVars, submitVars, windowVars, chunkVars, viewVars, pollVars >>

\* the effect found an access token at mount and called connectStream
InitRetry == InitConn /\ conns # << >>

SpecRetry ==
  /\ InitRetry
  /\ [][NextRetry]_vars
  /\ WF_vars(FetchSettles)
  /\ WF_vars(StreamCloses)
  /\ WF_vars(TimerFires)

\* the terminal state with the connection-lost error shown
ConnectionLostShown == Terminal /\ streamError = ConnectionLost

\* a fetch is answered with an ok response, with or without a readable
\* body: connectStream sets the attempt counter to 0
OkResponse == \E k \in 1..Len(conns) : FetchOk(k) \/ FetchNoBody(k)

\* C25: in every execution in which ok responses stop arriving from some
\* point on (every later fetch is rejected or answered with an error
\* status), the terminal connection-lost state is eventually reached; the
\* only other executions are those in which a fetch is answered with an ok
\* response again and again.
C25_LostUnlessReopened == ([]<><<OkResponse>>_vars) \/ <>ConnectionLostShown

\* C25 witness: the terminal state was reached after a stream had been open
\* and had delivered a connected frame.
C25_Witness ==
  /\ ConnectionLostShown
  /\ lastFrame = Frame("connected", << >>)

\* C25 as stated: in every execution in which no connection stays open, the
\* terminal connection-lost state is eventually reached.
C25_EventuallyConnectionLost == <>ConnectionLostShown

\* a step in which connectStream call k, fetching or reading, is over
Ended(k) ==
  /\ k \in 1..Len(conns)
  /\ conns[k] \in {"fetching", "reading"}
  /\ conns' = RemoveAt(conns, k)

\* C26: when a connectStream call that is fetching or reading is over (a
\* failure or the end of the stream), the pipeline is not aborted and the
\* attempt counter is below the maximum, the step arms the reconnect timer,
\* which was not pending before, for an attempt it has counted; a timer is
\* pending only while no stream is open; and the counter stays within 0..10.
C26_OneReconnectPerFailure ==
  /\ [][ \A k \in 1..Len(conns) :
           (Ended(k) /\ ~aborted /\ reconnectAttempts < maxReconnectAttempts) =>
             /\ reconnectTimer = 0
             /\ reconnectTimer' # 0
             /\ reconnectAttempts' \in 1..maxReconnectAttempts ]_vars
  /\ [](reconnectTimer # 0 => ~StreamOpen)
  /\ [](reconnectAttempts \in 0..maxReconnectAttempts)

(***************************************************************************)
(* Specification of the collection window in time.  The time left on each  *)
(* pending collection timeout is counted in ticks; WindowTicks ticks make  *)
(* the 150 ms of the window.  Frames arrive at any moment, also between    *)
(* the expiry of a timeout and the run of its callback.                    *)
(***************************************************************************)
WindowTicks == 2

\* a clearTimeout that cancels nothing
clearCollectionTimeout_noop(timers) == timers

\* if (collectionTimeoutRef.current) clearTimeout(collectionTimeoutRef.current):
\* the ref holds the timeout armed last; clearing one that has fired does
\* nothing
clearCollectionTimeout(timers) ==
  IF timers = << >> THEN << >> ELSE SubSeq(timers, 1, Len(timers) - 1)

\* collectionTimeoutRef.current = setTimeout(..., 150) after the clearTimeout
rearmCollectionTimeout(timers) == Append(clearCollectionTimeout(timers), WindowTicks)

\* a signal of the step was pushed onto the buffer
Accepted == Len(eventCollection') > Len(eventCollection)

\* a frame of the lane page with the timeouts its signals arm
WindowFrame ==
  /\ \/ \E t \in TaskIds : ThoughtStart("th1", t, None)
     \/ \E step \in {"gather_context", "action_complete", "unknown_step"} :
          StepUpdate(<< Entry(step, "th1", "t1", None) >>)
  /\ windowTimers' = IF Accepted THEN rearmCollectionTimeout(windowTimers)
                     ELSE windowTimers
  /\ UNCHANGED << parserVars, submitVars, chunkVars, viewVars, pollVars >>

\* time passes by one tick; an expired timeout stays expired until it runs
Tick ==
  /\ windowTimers # << >>
  /\ \E k \in 1..Len(windowTimers) : windowTimers[k] > 0
  /\ windowTimers' = [k \in 1..Len(windowTimers) |->
                        IF windowTimers[k] > 0 THEN windowTimers[k] - 1 ELSE 0]
  /\ UNCHANGED << reactVars, page, connVars, streamVars, interactVars, flowVars, animVars,
                  parserVars, submitVars, chunkVars, viewVars, pollVars >>

\* the callback of an expired collection timeout runs processCollectedEvents
WindowElapsed(k) ==
  /\ k \in 1..Len(windowTimers)
  /\ windowTimers[k] = 0
  /\ windowTimers' = RemoveAt(windowTimers, k)
  /\ ProcessCollectedEvents
  /\ UNCHANGED << parserVars, submitVars, chunkVars, viewVars, pollVars >>

InitWindow == Mounted(MaxFrames) /\ page = "lane"

NextWindow ==
  \/ /\ Render
     /\ UNCHANGED << parserVars, submitVars, windowVars, chunkVars, viewVars, pollVars >>
  \/ WindowFrame
  \/ Tick
  \/ \E k \in 1..Len(windowTimers) : WindowElapsed(k)
  \/ /\ \E k \in 1..Len(anims) : AnimationStep(k)
     /\ UNCHANGED << parserVars, submitVars, windowVars, chunkVars, viewVars, pollVars >>
  \/ /\ \E k \in 1..Len(anims) : AnimationClear(k)
     /\ UNCHANGED << parserVars, submitVars, windowVars, chunkVars, viewVars, pollVars >>

SpecWindow == InitWindow /\ [][NextWindow]_vars

\* C27: at most one collection timeout is pending; a step that pushes a
\* signal onto the buffer leaves exactly one timeout with the full window
\* ahead of it, whatever was pending before; a drain starts (the lock is
\* taken) only in a step that runs the one timeout with no time left on it,
\* so a full window after the last accepted signal; and while a timeout is
\* pending the lock is free and no lane is shown as active.
C27_WindowRestartsOnSignal ==
  /\ [](Len(windowTimers) <= 1)
  /\ [][ Accepted => windowTimers' = << WindowTicks >> ]_vars
  /\ [][ (~currentlyAnimating /\ currentlyAnimating') =>
           (windowTimers = << 0 >> /\ windowTimers' = << >>) ]_vars
  /\ [](windowTimers # << >> =>
          (~currentlyAnimating /\ activeStep = None /\ collectionTimer))
  /\ [](windowTimers = << >> => eventCollection = << >>)

\* C27 witness: a second signal was accepted after the first; two signals
\* are buffered behind one timeout with the full window ahead of it, and
\* nothing is shown.
C27_Witness ==
  /\ framesLeft = MaxFrames - 2
  /\ Len(eventCollection) = 2
  /\ windowTimers = << WindowTicks >>
  /\ activeStep = None

(***************************************************************************)
(* Specification of the animation scheduler under fair scheduling: the     *)
(* timeouts of the browser fire.  These are the collection timeout, the    *)
(* 800 ms wait of each lane and the 2 s cooldown; nothing in the page      *)
(* clears the last two.                                                    *)
(***************************************************************************)
\* an expired collection timeout runs its callback
CollectionTimeoutRuns == \E k \in 1..Len(windowTimers) : WindowElapsed(k)

\* the 800 ms wait of a running sequence ends
LaneWaitEnds ==
  /\ \E k \in 1..Len(anims) : AnimationStep(k)
  /\ UNCHANGED << parserVars, submitVars, windowVars, chunkVars, viewVars, pollVars >>

\* the 2 s cooldown of a sequence ends
CooldownEnds ==
  /\ \E k \in 1..Len(anims) : AnimationClear(k)
  /\ UNCHANGED << parserVars, submitVars, windowVars, chunkVars, viewVars, pollVars >>

SpecAnim ==
  /\ InitWindow
  /\ [][NextWindow]_vars
  /\ WF_vars(Tick)
  /\ WF_vars(CollectionTimeoutRuns)
  /\ WF_vars(LaneWaitEnds)
  /\ WF_vars(CooldownEnds)

\* C28: whenever the lock is held, a state follows in which the lock is
\* free, no lane is shown as active and no sequence is running; and a
\* thought_start frame handled while the lock is free has its signal pushed
\* onto the buffer with a full collection window ahead of it.
C28_AnimationFinishes ==
  /\ currentlyAnimating ~> (~currentlyAnimating /\ activeStep = None /\ anims = << >>)
  /\ [][ (FrameStep /\ lastFrame'.type = "thought_start" /\ ~currentlyAnimating) =>
           (Accepted /\ windowTimers' = << WindowTicks >>) ]_vars

\* C28 witness: the thought_start of task t1 was drained and its sequence
\* has finished; the thought_start of task t2, which arrived afterwards,
\* waits alone in the buffer behind a new collection timeout.
C28_Witness ==
  /\ framesLeft = MaxFrames - 2
  /\ DOMAIN activeTasks = {"t1", "t2"}
  /\ lastFrame.type = "thought_start"
  /\ lastFrame.data[1].task_id = "t2"
  /\ eventCollection = << [step |-> "THOUGHT_START", thoughtId |-> "th1"] >>
  /\ windowTimers = << WindowTicks >>
  /\ ~currentlyAnimating
  /\ activeStep = None
  /\ anims = << >>

(***************************************************************************)
(* Specification of the lane classification: step_update frames of the     *)
(* lane page whose step names are known tokens, an upper-case variant, a   *)
(* suffixed variant and a name no lane knows.                              *)
(***************************************************************************)
VariantSteps ==
  {"gather_context", "GATHER_CONTEXT", "gather_context_v2", "action_complete", "unknown_step"}

InitClassify == Mounted(MaxFrames) /\ page = "lane"

NextClassify ==
  \/ /\ Render
     /\ UNCHANGED << parserVars, submitVars, windowVars, chunkVars, viewVars, pollVars >>
  \/ /\ \E step \in VariantSteps, th \in ThoughtIds, t \in TaskIds :
          StepUpdate(<< Entry(step, th, t, None) >>)
     /\ UNCHANGED << parserVars, submitVars, windowVars, chunkVars, viewVars, pollVars >>

SpecClassify == InitClassify /\ [][NextClassify]_vars

\* the lane signalled to the animation scheduler by the step, None if none
SignalledLane ==
  IF Accepted THEN eventCollection'[Len(eventCollection')].step ELSE None

\* C29 (as claimed): a step that handles a step_update entry while the lock
\* is free signals to the animation scheduler the lane of the entry's step,
\* none for a step without a lane, and this is the lane React adds to the
\* thought's stepsReached when it runs the updater of the entry: with a lane
\* signalled, stepsReached becomes the set before plus that lane, and with
\* none signalled, stepsReached stays as it was.
C29_SameLaneSignalledAndReached ==
  /\ [][ (FrameStep /\ lastFrame'.type = "step_update" /\ ~currentlyAnimating) =>
           SignalledLane = animationLane(lastFrame'.data[1].current_step) ]_vars
  /\ [][ \A i \in 1..Len(Applied) :
           LET a == Applied[i]
               signalled == animationLane(a.u.arg.step)
               before == stepsReachedIn(a.pre.flow.tasks, a.u.arg.taskId, a.u.arg.thoughtId)
               after == stepsReachedIn(a.post.flow.tasks, a.u.arg.taskId, a.u.arg.thoughtId)
           IN  (a.u.hook = "activeTasks" /\ a.u.arg.step # "thought_start") =>
                 after = IF signalled = None THEN before ELSE before \cup {signalled} ]_vars

\* the tasks of the store under which a thought is recorded
TasksOf(th) ==
  IF page = "lane"
    THEN { t \in DOMAIN activeTasks : th \in DOMAIN activeTasks[t].thoughts }
    ELSE { t \in DOMAIN tasks :
             \E k \in 1..Len(tasks[t].thoughts) : tasks[t].thoughts[k].thoughtId = th }

\* C30: every thought of the store is recorded under one task only, also
\* after the stream has reported it under two task ids.
C30_ThoughtUnderOneTask ==
  \A th \in ThoughtIds : Cardinality(TasksOf(th)) <= 1

(***************************************************************************)
(* The read loop on the bytes of the response body.  The body is a         *)
(* sequence of bytes that reader.read() hands over in chunks of any size;  *)
(* a character of the ASCII range is one byte, written as the character,   *)
(* "C3" "A9" are the two bytes of one character outside that range, and a  *)
(* JSON text is written as one unit.                                       *)
(***************************************************************************)
\* the lead byte and the continuation byte of a two-byte character
LeadByte == "C3"
ContinuationByte == "A9"

\* the character the two bytes encode, and the replacement character
TwoByteChar == "e_acute"
ReplacementChar == "U+FFFD"

\* TextDecoder applied to a sequence of bytes: the text, and the bytes of an
\* incomplete character at the end.  A lead byte followed by a continuation
\* byte is one character, a lead byte followed by another byte and a
\* continuation byte that follows no lead byte are replaced, and a lead byte
\* at the end is held back.
decodeBytes(bytes) ==
  LET n == Len(bytes)
      Skip == "skip"
      out == [i \in 1..n |->
                IF bytes[i] = LeadByte
                  THEN IF i = n THEN Skip
                       ELSE IF bytes[i + 1] = ContinuationByte THEN TwoByteChar
                       ELSE ReplacementChar
                ELSE IF bytes[i] = ContinuationByte
                  THEN IF i > 1 /\ bytes[i - 1] = LeadByte THEN Skip
                       ELSE ReplacementChar
                ELSE bytes[i]]
      Kept(c) == c # Skip
  IN  [text |-> SelectSeq(out, Kept),
       pending |-> IF n > 0 /\ bytes[n] = LeadByte THEN << LeadByte >> ELSE << >>]

\* a decoder that keeps nothing between two calls: an incomplete character
\* at the end of a chunk is replaced
decode_perChunk(pending, value) ==
  LET d == decodeBytes(value)
  IN  [text |-> d.text \o [i \in 1..Len(d.pending) |-> ReplacementChar],
       pending |-> << >>]

\* decoder.decode(value, { stream: true }): the bytes held back by the call
\* before go first
decode(pending, value) == decodeBytes(pending \o value)

\* buffer.split('\n')
Split(cs) ==
  LET breaks == { i \in 1..Len(cs) : cs[i] = "\n" }
      \* the position of the k-th line break; 0 before the first piece and
      \* Len(cs) + 1 after the last one
      breakAt(k) ==
        IF k = 0 THEN 0
        ELSE IF k > Cardinality(breaks) THEN Len(cs) + 1
        ELSE CHOOSE i \in breaks : Cardinality({ j \in breaks : j < i }) = k - 1
  IN  [k \in 1..(Cardinality(breaks) + 1) |->
         SubSeq(cs, breakAt(k - 1) + 1, breakAt(k) - 1)]

\* line.startsWith(prefix)
startsWith(line, prefix) ==
  Len(line) >= Len(prefix) /\ SubSeq(line, 1, Len(prefix)) = prefix

\* line.slice(n)
slice(line, n) == SubSeq(line, n + 1, Len(line))

\* the parser of a connectStream call: let eventType = '', eventData = '',
\* and no handler call made
NoLines == [eventType |-> << >>, eventData |-> << >>, emitted |-> << >>]

\* one iteration of `for (const line of lines)` on the pending type, the
\* pending data and the handler calls made
lineStep(ps, line) ==
  LET pending == Len(ps.eventType) > 0 /\ Len(ps.eventData) > 0
      called == Append(ps.emitted, Frame(ps.eventType, ps.eventData))
  IN  IF startsWith(line, Chars("event:"))
        THEN [eventType |-> Trim(slice(line, 6)),
              eventData |-> << >>,
              emitted |-> IF pending THEN called ELSE ps.emitted]
      ELSE IF startsWith(line, Chars("data:"))
        THEN [ps EXCEPT !.eventData = appendData(ps.eventData, Trim(slice(line, 5)))]
      ELSE IF line = << >> /\ pending
        THEN [eventType |-> << >>, eventData |-> << >>, emitted |-> called]
      ELSE ps

\* for (const line of lines): a handler call that throws leaves the loop
\* with the pending type and data as they were at the call
RECURSIVE forEachLine(_, _)
forEachLine(ps, ls) ==
  IF Len(ls) = 0 THEN ps
  ELSE LET next == lineStep(ps, Head(ls))
       IN  IF /\ Len(next.emitted) > Len(ps.emitted)
              /\ processEventThrows(ps.eventType, ps.eventData)
             THEN [ps EXCEPT !.emitted = next.emitted]
             ELSE forEachLine(next, Tail(ls))

\* the bytes the response body may carry
EventLine(name) == Chars("event:") \o << " " >> \o Chars(name) \o << "\n" >>

\* two frames, the second one with its data on two lines and a two-byte
\* character after it
TwoFrames ==
  EventLine("step_update") \o Chars("data:") \o << " ", "{doc}", "\n", "\n" >>
  \o EventLine("step_update") \o Chars("data:") \o << " ", "{head", "\n" >>
  \o Chars("data:") \o << "tail}", "\n", "\n" >>
  \o EventLine("keepalive") \o Chars("data:") \o << LeadByte, ContinuationByte, "\n", "\n" >>

\* two frames with no blank line between them, the second one not closed
\* by a blank line either
NoBlankLine ==
  EventLine("step_update") \o Chars("data:") \o << " ", "{head", "\n" >>
  \o Chars("data:") \o << "tail}", "\n" >>
  \o EventLine("step_update") \o Chars("data:") \o << " ", "{doc}", "\n" >>

\* a comment line with a stray continuation byte, a data line without a
\* type, a type without data, a frame whose data is a two-byte character,
\* and a last line that is not ended
Stray ==
  << ":", ContinuationByte, "\n" >>
  \o Chars("data:") \o << " ", "{doc}", "\n", "\n" >>
  \o EventLine("keepalive") \o << "\n" >>
  \o EventLine("step_update") \o Chars("data:")
  \o << " ", LeadByte, ContinuationByte, "\n", "\n" >>
  \o Chars("event:") \o << " ", "s", "t" >>

\* two frames with no blank line between them, the second one closed by a
\* blank line
Adjacent ==
  EventLine("step_update") \o Chars("data:") \o << " ", "{doc}", "\n" >>
  \o EventLine("step_update") \o Chars("data:") \o << " ", "{head", "\n" >>
  \o Chars("data:") \o << "tail}", "\n", "\n" >>

\* a frame whose data JSON.parse rejects, the frame that follows it with no
\* blank line between them, and a third frame
BadFirst ==
  EventLine("step_update") \o Chars("data:") \o << " ", "{bad", "\n" >>
  \o EventLine("step_update") \o Chars("data:") \o << " ", "{doc}", "\n", "\n" >>
  \o EventLine("keepalive") \o Chars("data:") \o << " ", "{doc}", "\n", "\n" >>

Contents == { TwoFrames, NoBlankLine, Stray, Adjacent, BadFirst }

\* one reader.read() that hands over the next n bytes: the text is decoded,
\* added to the buffer and split, the last piece stays in the buffer
ReadChunk(n) ==
  /\ StreamOpen
  /\ ~readerDone
  /\ chunkLines = << >>
  /\ n \in 1..(Len(content) - delivered)
  /\ LET value == SubSeq(content, delivered + 1, delivered + n)
         d == decode(decoderPending, value)
         ls == Split(buffer \o d.text)
     IN  /\ delivered' = delivered + n
         /\ decoderPending' = d.pending
         /\ chunkLines' = SubSeq(ls, 1, Len(ls) - 1)
         /\ buffer' = ls[Len(ls)]
  /\ UNCHANGED << page, streamVars, connVars, interactVars, flowVars, animVars,
                  parserVars, submitVars, windowVars, content, emitted,
                  viewVars, pollVars, reactVars >>

\* one iteration of `for (const line of lines)` on the lines of the chunk;
\* a handler call that throws leaves the loop: the rest of the lines is
\* dropped and the assignments that follow the call are not reached
ChunkLine ==
  /\ StreamOpen
  /\ ~readerDone
  /\ chunkLines # << >>
  /\ LET line == Head(chunkLines)
         ps == lineStep([eventType |-> eventType, eventData |-> eventData,
                         emitted |-> emitted], line)
         called == Len(ps.emitted) > Len(emitted)
         thrown == called /\ processEventThrows(eventType, eventData)
     IN  /\ chunkLines' = IF thrown THEN << >> ELSE Tail(chunkLines)
         /\ lastLine' = line
         /\ eventType' = IF thrown THEN eventType ELSE ps.eventType
         /\ eventData' = IF thrown THEN eventData ELSE ps.eventData
         /\ emitted' = ps.emitted
         /\ IF called THEN Dispatch(eventType, eventData) ELSE NoDispatch
  /\ UNCHANGED << readerDone, dataLineCount, submitVars, windowVars, content,
                  delivered, decoderPending, buffer, viewVars, pollVars >>

\* reader.read() reports done after the last byte
ChunkDone ==
  /\ StreamOpen
  /\ ~readerDone
  /\ chunkLines = << >>
  /\ delivered = Len(content)
  /\ EndOfStream
  /\ emitted' = IF page = "lane" /\ framePending
                  THEN Append(emitted, Frame(eventType, eventData))
                  ELSE emitted
  /\ UNCHANGED << eventType, eventData, lastLine, dataLineCount, submitVars,
                  windowVars, content, delivered, decoderPending, buffer, chunkLines,
                  viewVars, pollVars >>

(***************************************************************************)
(* Specification of one connection of either page reading a response body  *)
(* that arrives cut into chunks at any positions.                          *)
(***************************************************************************)
InitChunk ==
  /\ MountedCore(MaxFrames + 1)
  /\ \E bytes \in Contents : ChunkInit(bytes)
  /\ ViewInit
  /\ NoPoll

NextChunk ==
  \/ \E n \in 1..Len(content) : ReadChunk(n)
  \/ ChunkLine
  \/ ChunkDone
  \/ /\ Render
     /\ UNCHANGED << parserVars, submitVars, windowVars, chunkVars, viewVars, pollVars >>

SpecChunk == InitChunk /\ [][NextChunk]_vars

\* the parser after the bytes were handed over as one chunk
OneChunk(bytes) ==
  LET d == decode(<< >>, bytes)
      ls == Split(d.text)
      ps == forEachLine(NoLines, SubSeq(ls, 1, Len(ls) - 1))
  IN  [eventType |-> ps.eventType, eventData |-> ps.eventData,
       emitted |-> ps.emitted, buffer |-> ls[Len(ls)], decoderPending |-> d.pending]

\* the handler calls of a body handed over as one chunk and then reported
\* done
AllFrames(bytes) ==
  LET ps == OneChunk(bytes)
  IN  IF page = "lane" /\ Len(ps.eventType) > 0 /\ Len(ps.eventData) > 0
        THEN Append(ps.emitted, Frame(ps.eventType, ps.eventData))
        ELSE ps.emitted

\* the parser of the connection, between two reads
ParserNow ==
  [eventType |-> eventType, eventData |-> eventData, emitted |-> emitted,
   buffer |-> buffer, decoderPending |-> decoderPending]

IsPrefix(a, b) == Len(a) <= Len(b) /\ SubSeq(b, 1, Len(a)) = a

\* C31: however the body is cut into chunks, between two reads the pending
\* type, the pending data, the buffer and the handler calls made are those
\* of the bytes delivered so far handed over as one chunk; when the stream
\* is reported done, or the loop was left because a handler call threw, the
\* handler calls made are those of the whole body handed over as one chunk,
\* and never are there others; the loop over the lines of a chunk goes on
\* to its last line, whatever waits for the render.
C31_ChunkingIrrelevant ==
  /\ (StreamOpen /\ ~readerDone /\ chunkLines = << >>) =>
       ParserNow = OneChunk(SubSeq(content, 1, delivered))
  /\ (StreamOpen /\ ~readerDone /\ chunkLines # << >>) => ENABLED ChunkLine
  /\ (readerDone \/ ~StreamOpen) => emitted = AllFrames(content)
  /\ IsPrefix(emitted, AllFrames(content))

\* a chunk ended inside a two-byte character after a frame was handed over,
\* and one ended inside a field name
C31_Witness ==
  /\ StreamOpen
  /\ chunkLines = << >>
  /\ Len(emitted) >= 1
  /\ \/ decoderPending = << LeadByte >>
     \/ buffer = << "e", "v" >>
  /\ delivered < Len(content)

\* a step of the for loop that reads an event: line
EventLineRead ==
  /\ chunkLines # << >>
  /\ chunkLines' # chunkLines
  /\ startsWith(Head(chunkLines), Chars("event:"))

\* the two frames of the body Adjacent
AdjacentFrames ==
  << Frame(Chars("step_update"), DocWhole), Frame(Chars("step_update"), DocSplit) >>

\* the first two frames of the body BadFirst
BadFirstFrames ==
  << Frame(Chars("step_update"), << "{bad" >>), Frame(Chars("step_update"), DocWhole) >>

\* C32 (as claimed): a step that reads an event: line while a type and data
\* are pending calls the handler with that pending frame and leaves the
\* type of the line pending with no data; of two frames with no blank line
\* between them the handler gets the first and then the second, each with
\* its own data lines.
C32_EventLineEmitsPending ==
  /\ [][ (EventLineRead /\ framePending) =>
           (/\ emitted' = Append(emitted, Frame(eventType, eventData))
            /\ DispatchStep
            /\ dispatched' = Frame(TypeName(eventType), eventData)
            /\ eventType' = Trim(slice(Head(chunkLines), 6))
            /\ eventData' = << >>) ]_vars
  /\ [](content = Adjacent =>
          (/\ IsPrefix(emitted, AdjacentFrames)
           /\ readerDone => emitted = AdjacentFrames))
  /\ [](content = BadFirst =>
          (\/ IsPrefix(emitted, BadFirstFrames)
           \/ IsPrefix(BadFirstFrames, emitted)))
  /\ []((content = BadFirst /\ (readerDone \/ ~StreamOpen)) =>
          IsPrefix(BadFirstFrames, emitted))

\* the entries of the recently-completed list that name a task
CompletionsListed(t) ==
  { i \in 1..Len(recentlyCompletedTasks) : recentlyCompletedTasks[i] = t }

\* C33 (as claimed): a task is in the recently-completed list at most once,
\* and when React runs the updater of a completion event of a task that is
\* already completed, the run neither adds the task to the list nor starts
\* its completion animation again.
C33_CompletionEffectsOnce ==
  /\ [](\A t \in TaskIds : Cardinality(CompletionsListed(t)) <= 1)
  /\ [][ \A i \in 1..Len(EventsApplied) :
           LET a == EventsApplied[i]
               t == a.u.arg.taskId
           IN  (/\ a.u.hook = "activeTasks"
                /\ t \in DOMAIN a.pre.flow.tasks
                /\ a.pre.flow.tasks[t].completed) =>
                 (/\ nestedSetters(a.u) = << >>
                  /\ a.post.flow.timers = a.pre.flow.timers) ]_vars

\* the step entries the detail store holds for a thought of a task
StepsOf(td, t, th) ==
  IF t \in DOMAIN td /\ th \in DOMAIN td[t] THEN td[t][th] ELSE << >>

\* C34 (as claimed): on the lane page, once React has run every updater
\* handed to it, each thought the flow store holds with a step a
\* step_update recorded has step entries under its task in the detail
\* store, and the entry recorded last is that step.
C34_StoresConsistent ==
  (page = "lane" /\ updateQueue = << >>) =>
    \A p \in FlowThoughts :
      LET thought == activeTasks[p[1]].thoughts[p[2]]
          steps == StepsOf(taskData, p[1], p[2])
      IN  thought.currentStep # "thought_start" =>
            /\ steps # << >>
            /\ steps[Len(steps)] = thought.currentStep

(***************************************************************************)
(* Specification of the interact page under events of one thought whose    *)
(* event_type is one of the six stage names of the timeline or a name the  *)
(* timeline does not know.                                                 *)
(***************************************************************************)
\* const stageNames = [...]
stageNames ==
  << "thought_start", "snapshot_and_context", "dma_results", "aspdma_result",
     "conscience_result", "action_result" >>

StageNameSet == { stageNames[i] : i \in 1..Len(stageNames) }

\* event_type values the stream carries
StreamEventTypes == StageNameSet \cup {"round_complete"}

InitStages == Mounted(Len(stageNames) + 1) /\ page = "interact"

NextStages ==
  \/ /\ Render
     /\ UNCHANGED << parserVars, submitVars, windowVars, chunkVars, viewVars, pollVars >>
  \/ /\ \E ty \in StreamEventTypes : ProcessEvent(<< Event(ty, "th1", "t1", None, None) >>)
     /\ UNCHANGED << parserVars, submitVars, windowVars, chunkVars, viewVars, pollVars >>

SpecStages == InitStages /\ [][NextStages]_vars

\* C35 (as claimed): every thought of the events[] store holds at most six
\* stage entries, each under one of the six stage names.
C35_AtMostSixStages ==
  \A t \in DOMAIN tasks :
    \A k \in 1..Len(tasks[t].thoughts) :
      /\ Cardinality(DOMAIN tasks[t].thoughts[k].stages) <= Len(stageNames)
      /\ DOMAIN tasks[t].thoughts[k].stages \subseteq StageNameSet

(***************************************************************************)
(* Interact page: the timeline of messages and tasks, derived from the     *)
(* messages, the correlation map and the task store.                       *)
(***************************************************************************)
\* a message of the conversation history, sent at a time of the clock
Message(id, is_agent, ms) ==
  [id |-> id, is_agent |-> is_agent, timestamp |-> toISOString(ms)]

\* the number of messages the page shows
MessagesLimit == 20

\* seq.slice(-n) that drops nothing
sliceLast_all(seq, n) == seq

\* seq.slice(-n): the last n elements
sliceLast(seq, n) ==
  IF Len(seq) <= n THEN seq ELSE SubSeq(seq, Len(seq) - n + 1, Len(seq))

\* items.sort((a, b) => new Date(a.timestamp).getTime() -
\* new Date(b.timestamp).getTime()): the items by their times, those of the
\* same time in the order they had (Array.prototype.sort is stable)
RECURSIVE sortByTime(_)
sortByTime(items) ==
  IF items = << >> THEN << >>
  ELSE LET n == Len(items)
           sorted == sortByTime(SubSeq(items, 1, n - 1))
           time == getTime(items[n].timestamp)
           p == Cardinality({ j \in 1..(n - 1) : getTime(sorted[j].timestamp) <= time })
       IN  SubSeq(sorted, 1, p) \o << items[n] >> \o SubSeq(sorted, p + 1, n - 1)

\* nineteen answers of the agent, all of the same time
Replies == [i \in 1..(MessagesLimit - 1) |-> Message("a1", TRUE, 2)]

\* history.messages as the query may deliver it: no message; the two
\* submissions out of the order of their times; an agent message under the
\* id of a submission and a message without an id, both of one time; and
\* one message more than the page shows, the oldest of them a submission
Histories ==
  { << >>,
    << Message("m2", FALSE, 2), Message("m1", FALSE, 1) >>,
    << Message("m1", TRUE, 1), Message(None, FALSE, 1) >>,
    << Message("m2", FALSE, 2) >> \o Replies \o << Message("m1", FALSE, 1) >> }

\* const messages = useMemo(...): the messages of the history by their
\* times, the last twenty of them
MessagesMemo(history) == sliceLast(sortByTime(history), MessagesLimit)

\* the query delivers a history and React renders the page with it: the
\* memo of the messages is computed anew, and the updates that wait are
\* processed as in every render
HistoryFetched(history) ==
  /\ page = "interact"
  /\ chunkLines = << >>
  /\ messages' = MessagesMemo(history)
  /\ Put(render(Component))
  /\ UNCHANGED << outsideComponent, streamVars, parserVars, submitVars, windowVars,
                  chunkVars, streamData, currentStepPoint, lastStepResult,
                  lastStepMetrics, processorState, now, pollVars >>

\* messageToTaskMap.get(msg.id) and tasks.get(taskId): << >> for undefined,
\* or the task shown under the message
relatedTask(msg) ==
  IF ~msg.is_agent /\ truthy(msg.id)
    THEN IF msg.id \in DOMAIN messageToTaskMap /\ truthy(messageToTaskMap[msg.id])
           THEN IF messageToTaskMap[msg.id] \in DOMAIN tasks
                  THEN << tasks[messageToTaskMap[msg.id]] >>
                  ELSE << >>
           ELSE << >>
    ELSE << >>

\* the items pushed for the messages
messageItems ==
  [i \in 1..Len(messages) |->
     [type |-> "message", timestamp |-> messages[i].timestamp, data |-> messages[i],
      relatedTask |-> relatedTask(messages[i])]]

\* a timeline without the set of tasks shown under a message
shownTaskIds_none(items) == {}

\* new Set(items.filter(item => item.relatedTask).map(item => item.relatedTask.taskId))
shownTaskIds(items) ==
  { items[i].relatedTask[1].taskId :
      i \in { j \in 1..Len(items) : items[j].relatedTask # << >> } }

\* Array.from(tasks.values()): the tasks in the order of their entries
taskValues ==
  [k \in 1..Cardinality(DOMAIN tasks) |->
     tasks[CHOOSE t \in DOMAIN tasks : tasks[t].entry = k]]

\* the items pushed for the tasks that are not shown under a message
taskItems(shown) ==
  LET rest == SelectSeq(taskValues, LAMBDA task : task.taskId \notin shown)
  IN  [i \in 1..Len(rest) |->
         [type |-> "task", timestamp |-> rest[i].firstTimestamp, data |-> rest[i],
          relatedTask |-> << >>]]

\* the timeline: the message items and the task items, sorted by their times
timeline == sortByTime(messageItems \o taskItems(shownTaskIds(messageItems)))

\* the clock moves on by a millisecond
ClockTick ==
  /\ now < MaxClock
  /\ now' = now + 1
  /\ UNCHANGED << page, streamVars, connVars, interactVars, flowVars, animVars,
                  parserVars, submitVars, windowVars, chunkVars, messages, streamData,
                  currentStepPoint, lastStepResult, lastStepMetrics, processorState,
                  pollVars, reactVars >>

\* the events arrays of this specification: one event of one thought of
\* either task, that of t1 without a time and that of t2 with the time the
\* server gave it
TimelineEventArrays ==
  { << [Event("snapshot_and_context", "th1", "t1", None, None) EXCEPT !.timestamp = None] >>,
    << [Event("snapshot_and_context", "th1", "t2", None, None) EXCEPT !.timestamp = toISOString(2)] >> }

\* the responses of this specification: one that is not accepted, and
\* accepted ones that map m1 to t1 and m2 to either task
TimelineResponses ==
  { r \in Responses :
      IF r.accepted
        THEN \/ r.message_id = "m1" /\ r.task_id = "t1"
             \/ r.message_id = "m2" /\ r.task_id # None
        ELSE r.message_id = None /\ r.task_id = None }

(***************************************************************************)
(* Specification of the interact page with submissions, stream events and  *)
(* the message history changing in any order.                              *)
(***************************************************************************)
NextTimeline ==
  \/ /\ Render
     /\ UNCHANGED << parserVars, submitVars, windowVars, chunkVars, viewVars, pollVars >>
  \/ /\ MessageChange(<< "hello" >>)
     /\ UNCHANGED << parserVars, windowVars, chunkVars, viewVars, pollVars >>
  \/ /\ HandleSubmit
     /\ UNCHANGED << parserVars, windowVars, chunkVars, viewVars, pollVars >>
  \/ \E data \in TimelineResponses : SubmitSuccess(data)
  \/ /\ \E events \in TimelineEventArrays : ProcessEvent(events)
     /\ UNCHANGED << parserVars, submitVars, windowVars, chunkVars, viewVars, pollVars >>
  \/ \E history \in Histories : HistoryFetched(history)
  \/ ClockTick

SpecTimeline == InitSubmit /\ [][NextTimeline]_vars

\* the message items of a timeline, in its order
ShownMessages(items) == SelectSeq(items, LAMBDA item : item.type = "message")

\* the messages under which a timeline shows a task nested
NestedItems(items, t) ==
  { i \in 1..Len(items) :
      /\ items[i].type = "message"
      /\ items[i].relatedTask # << >>
      /\ items[i].relatedTask[1].taskId = t }

\* the items of a timeline that show a task standing alone
StandaloneItems(items, t) ==
  { i \in 1..Len(items) : items[i].type = "task" /\ items[i].data.taskId = t }

\* the user messages shown whose id maps to a task
MessagesOf(t) ==
  { i \in 1..Len(messages) :
      /\ ~messages[i].is_agent
      /\ messages[i].id \in DOMAIN messageToTaskMap
      /\ messageToTaskMap[messages[i].id] = t }

\* a message has a mapping to a task of the store
Mapped(msg) ==
  /\ msg.id \in DOMAIN messageToTaskMap
  /\ messageToTaskMap[msg.id] \in DOMAIN tasks

\* C36: in every state the timeline shows the messages of the memo (the
\* last twenty of the history by their times) in their order, and every
\* task of the store: nested, as the store holds it, under each user
\* message shown whose id maps to it and under no other item, and as one
\* standalone item exactly when no message shown maps to it; a message whose
\* id has no mapping or whose task is not in the store has no related task.
C36_TimelineComplete ==
  LET items == timeline
      shown == ShownMessages(items)
  IN  /\ [i \in 1..Len(shown) |-> shown[i].data] = messages
      /\ \A t \in DOMAIN tasks :
           /\ { i \in 1..Len(shown) : shown[i].relatedTask = << tasks[t] >> } = MessagesOf(t)
           /\ Cardinality(NestedItems(items, t)) = Cardinality(MessagesOf(t))
           /\ Cardinality(StandaloneItems(items, t)) = IF MessagesOf(t) = {} THEN 1 ELSE 0
      /\ \A i \in 1..Len(messages) : ~Mapped(messages[i]) => shown[i].relatedTask = << >>

\* the history holds more messages than are shown and the submission m1
\* is not among the twenty: its task stands alone, first in the timeline
\* by its time, and the other task is shown under its message
C36_Witness ==
  /\ Len(messages) = MessagesLimit
  /\ \A i \in 1..Len(messages) : messages[i].id # "m1"
  /\ "m1" \in DOMAIN messageToTaskMap
  /\ StandaloneItems(timeline, messageToTaskMap["m1"]) = {1}
  /\ \E t \in DOMAIN tasks : Cardinality(NestedItems(timeline, t)) = 1

\* C36 (as claimed): every task of the store is in the timeline exactly
\* once, nested or standing alone, and a message whose id has no mapping or
\* whose task is not in the store has no related task.
C36_TaskShownOnce ==
  LET items == timeline
      shown == ShownMessages(items)
  IN  /\ \A t \in DOMAIN tasks :
           Cardinality(NestedItems(items, t)) + Cardinality(StandaloneItems(items, t)) = 1
      /\ \A i \in 1..Len(messages) : ~Mapped(messages[i]) => shown[i].relatedTask = << >>

(***************************************************************************)
(* Runtime-control page: the listeners of its EventSource.                 *)
(***************************************************************************)
\* the number of updates the step_update listener keeps
HistoryLimit == 100

\* the step_update frames of a run
RuntimeFrames == HistoryLimit + 2

\* the most step_update frames of a run whose data JSON.parse rejects
MaxUnparsable == 1

\* what JSON.parse returns for the data of the n-th step_update it accepts:
\* an update whose optional fields go with n, null for every fifth, a number
\* for every seventh
StepDataAt(n) ==
  IF n % 5 = 0 THEN [json |-> "null"]
  ELSE IF n % 7 = 0 THEN [json |-> "number", value |-> n]
  ELSE [ json |-> "object",
         timestamp |-> n,
         step_point |-> IF n % 2 = 1 THEN "gather_context" ELSE None,
         step_result |-> IF n % 3 = 1 THEN "result" ELSE None,
         processing_time_ms |-> IF n % 4 = 1 THEN 40 ELSE 0,
         tokens_used |-> 0 ]

\* the number of the update a history ends with, 0 for the empty history
lastArrival(history) ==
  IF history = << >> THEN 0
  ELSE LET last == history[Len(history)]
           numberOf(d) == IF d.json = "object" THEN d.timestamp ELSE d.value
       IN  IF last.json = "null" THEN numberOf(history[Len(history) - 1]) + 1
           ELSE numberOf(last)

\* prev => [...prev.slice(-99), stepData]
keepLast(prev, stepData) == Append(sliceLast(prev, HistoryLimit - 1), stepData)

RECURSIVE keepAll(_, _)
\* React processes the queue of the streamData hook: a state kept by an
\* updater that ran inside the setter call is taken, the waiting updaters
\* run in order
keepAll(prev, queue) ==
  IF queue = << >> THEN prev
  ELSE keepAll(IF Head(queue).hook = "computed" THEN Head(queue).arg
               ELSE keepLast(prev, Head(queue).arg),
               Tail(queue))

\* the step_update the stream sends after the updates handled so far
NextStepData == StepDataAt(lastArrival(keepAll(streamData, updateQueue)) + 1)

\* the step_update frames handled so far whose data JSON.parse rejected
Unparsable == (RuntimeFrames - framesLeft) - lastArrival(keepAll(streamData, updateQueue))

\* the step_update listener, given what JSON.parse makes of the data: << >>
\* when it throws (the catch block logs the error), the value otherwise.
\* The updater passed to setStreamData runs when React processes the hook's
\* queue: in the next render, or inside the setter call when no update is
\* scheduled and React chooses to (its state is then kept for the render).
\* Reading a field of null throws after setStreamData was called; the fields
\* of a value that is no object are undefined.  The other three setters are
\* called with values; their variables hold the value set last, which is
\* what the next render shows.
RuntimeStepUpdate(parsed) ==
  /\ page = "runtime"
  /\ conns # << >>
  /\ framesLeft > 0
  /\ framesLeft' = framesLeft - 1
  /\ lastFrame' = Frame("step_update", parsed)
  /\ IF parsed = << >>
       THEN /\ Unparsable < MaxUnparsable
            /\ UNCHANGED << viewVars, reactVars >>
       ELSE LET stepData == parsed[1]
                isObject == stepData.json = "object"
            IN  /\ Len(waiting(updateQueue)) < MaxQueued
                /\ \E eager \in BOOLEAN :
                     updateQueue' =
                       Append(updateQueue,
                              IF ~renderPending /\ eager
                                THEN Computed("streamData", keepLast(streamData, stepData))
                                ELSE Updater("streamData", stepData))
                /\ renderPending' = TRUE
                /\ currentStepPoint' =
                     IF isObject /\ truthy(stepData.step_point)
                       THEN stepData.step_point ELSE currentStepPoint
                /\ lastStepResult' =
                     IF isObject /\ truthy(stepData.step_result)
                       THEN stepData.step_result ELSE lastStepResult
                /\ lastStepMetrics' =
                     IF isObject /\ (stepData.processing_time_ms # 0 \/ stepData.tokens_used # 0)
                       THEN << [ processing_time_ms |-> stepData.processing_time_ms,
                                 tokens_used |-> stepData.tokens_used ] >>
                       ELSE lastStepMetrics
                /\ UNCHANGED << messages, streamData, processorState, now >>
  /\ UNCHANGED << page, connVars, interactVars, flowVars, animVars, parserVars,
                  submitVars, windowVars, chunkVars, pollVars >>

\* what the other handlers of the runtime page leave alone
RuntimeRest ==
  UNCHANGED << page, streamVars, conns, reconnectAttempts, reconnectTimer, aborted,
               interactVars, flowVars, animVars, parserVars, submitVars, windowVars,
               chunkVars, pollVars, updateQueue, messages, streamData, now >>

\* the data of the stream's error events: a document with a message, with
\* none or with an empty one, null, and data that JSON.parse rejects
RuntimeErrorDatas == { ErrorData(m) : m \in ErrorMessages } \cup {NullData, BadData}

\* an error event is dispatched at the EventSource, by the stream with
\* data or by the connection without (BadData: JSON.parse throws).  The
\* listener of the error events runs first: reading the message of null
\* throws like JSON.parse does, and the catch block sets its own text; then
\* eventSource.onerror runs and sets its text over it.  A setter schedules
\* a render when its value is not the one set last.
RuntimeError(data) ==
  LET listenerText == IF data[1].json = "object" THEN StreamErrorMessage(data[1])
                      ELSE "Stream connection failed"
      onerrorText == "Connection lost - attempting to reconnect..."
  IN  /\ page = "runtime"
      /\ conns # << >>
      /\ streamError' = onerrorText
      /\ streamConnected' = FALSE
      /\ renderPending' = (\/ renderPending
                           \/ listenerText # streamError
                           \/ streamConnected
                           \/ onerrorText # listenerText)
      /\ UNCHANGED << currentStepPoint, lastStepResult, lastStepMetrics, processorState >>
      /\ RuntimeRest

\* the connected listener
RuntimeConnected ==
  /\ page = "runtime"
  /\ conns # << >>
  /\ streamConnected' = TRUE
  /\ streamError' = None
  /\ renderPending' = (renderPending \/ ~streamConnected \/ streamError # None)
  /\ UNCHANGED << currentStepPoint, lastStepResult, lastStepMetrics, processorState >>
  /\ RuntimeRest

\* responses of the single-step request: with a step result or none, with
\* a processing time or none
SingleStepResponses ==
  { [ step_result |-> r, processing_time_ms |-> p, tokens_used |-> 0 ] :
      r \in {None, "result"}, p \in {0, 40} }

\* singleStepMutation.onSuccess(data): the metrics are set whatever data
\* carries
SingleStepSuccess(data) ==
  /\ page = "runtime"
  /\ lastStepResult' = IF truthy(data.step_result) THEN data.step_result ELSE lastStepResult
  /\ lastStepMetrics' = << [ processing_time_ms |-> data.processing_time_ms,
                             tokens_used |-> data.tokens_used ] >>
  /\ renderPending' = TRUE
  /\ UNCHANGED << currentStepPoint, processorState, streamConnected, streamError >>
  /\ RuntimeRest

\* processor_state of the responses to pause: none, and the state named
PausedStates == {None, "paused"}

\* processor_state of the responses to resume: none, and the states named
ResumedStates == {None, "active", "running"}

\* pauseMutation.onSuccess(data)
PauseSuccess(data) ==
  /\ page = "runtime"
  /\ processorState' = IF truthy(data.processor_state) THEN data.processor_state
                       ELSE processorState
  /\ renderPending' = (renderPending \/ processorState' # processorState)
  /\ UNCHANGED << currentStepPoint, lastStepResult, lastStepMetrics,
                  streamConnected, streamError >>
  /\ RuntimeRest

\* resumeMutation.onSuccess(data)
ResumeSuccess(data) ==
  /\ page = "runtime"
  /\ processorState' =
       IF truthy(data.processor_state)
         THEN IF data.processor_state = "active" THEN "running" ELSE data.processor_state
         ELSE processorState
  /\ currentStepPoint' = None
  /\ lastStepResult' = None
  /\ lastStepMetrics' = << >>
  /\ renderPending' = (\/ renderPending
                       \/ processorState' # processorState
                       \/ currentStepPoint # None
                       \/ lastStepResult # None
                       \/ lastStepMetrics # << >>)
  /\ UNCHANGED << streamConnected, streamError >>
  /\ RuntimeRest

\* React renders the runtime page: the queue of the streamData hook is
\* processed
RuntimeRender ==
  /\ page = "runtime"
  /\ renderPending
  /\ streamData' = keepAll(streamData, updateQueue)
  /\ renderPending' = FALSE
  /\ updateQueue' = << >>
  /\ UNCHANGED << page, streamVars, connVars, interactVars, flowVars, animVars,
                  parserVars, submitVars, windowVars, chunkVars, messages,
                  currentStepPoint, lastStepResult, lastStepMetrics, processorState,
                  now, pollVars >>

(***************************************************************************)
(* Specification of the runtime-control page after mount, with more step   *)
(* updates arriving than the history keeps.  The effect opens the          *)
(* EventSource (conns holds it) when there is an access token and sets an  *)
(* error otherwise.                                                        *)
(***************************************************************************)
InitRuntime ==
  /\ page = "runtime"
  /\ \/ MountedAs(RuntimeFrames, << "reading" >>, FALSE, None)
     \/ MountedAs(0, << >>, FALSE, "Authentication required for streaming")
  /\ ChunkInit(<< >>)
  /\ ViewInit
  /\ NoPoll

NextRuntime ==
  \/ RuntimeRender
  \/ RuntimeStepUpdate(<< NextStepData >>)
  \/ RuntimeStepUpdate(<< >>)
  \/ \E data \in RuntimeErrorDatas : RuntimeError(data)
  \/ RuntimeConnected
  \/ \E data \in SingleStepResponses : SingleStepSuccess(data)
  \/ \E state \in PausedStates : PauseSuccess([processor_state |-> state])
  \/ \E state \in ResumedStates : ResumeSuccess([processor_state |-> state])

SpecRuntime == InitRuntime /\ [][NextRuntime]_vars

\* the last min(n, HistoryLimit) of the first n updates of the stream, in
\* the order of their arrival
RecentUpdates(n) ==
  [ i \in 1..Min(n, HistoryLimit) |-> StepDataAt(n - Min(n, HistoryLimit) + i) ]

\* C37: the history shown never holds more than 100 updates and is always
\* the most recent updates up to some update, in their order of arrival; a
\* step that handles a parsed step_update schedules a render, and with that
\* update handled last and nothing left to render the history ends with it;
\* a step that handles a step_update whose data cannot be parsed leaves the
\* history, the current step, the last result, the metrics and React's
\* queue as they were.
C37_HistoryBounded ==
  /\ [](Len(streamData) <= HistoryLimit)
  /\ [](streamData = RecentUpdates(lastArrival(streamData)))
  /\ [][ (FrameStep /\ lastFrame'.data # << >>) => renderPending' ]_vars
  /\ []((lastFrame.type = "step_update" /\ lastFrame.data # << >> /\ ~renderPending) =>
          streamData[Len(streamData)] = lastFrame.data[1])
  /\ [][ (FrameStep /\ lastFrame'.data = << >>) => UNCHANGED << viewVars, reactVars >> ]_vars

\* the history is full, its oldest update was dropped and it holds a null;
\* a current step, a result and metrics are shown, and the last frame could
\* not be parsed
C37_Witness ==
  /\ Len(streamData) = HistoryLimit
  /\ lastArrival(streamData) > HistoryLimit
  /\ \E i \in 1..Len(streamData) : streamData[i].json = "null"
  /\ currentStepPoint # None
  /\ lastStepResult # None
  /\ lastStepMetrics # << >>
  /\ lastFrame = Frame("step_update", << >>)

(***************************************************************************)
(* ConsentResource.pollPartnershipStatus.                                  *)
(***************************************************************************)
\* the largest maxAttempts argument of the calls looked at
MaxPollAttempts == 4

\* partnership_status values a status request reports
PartnershipStatuses == {"pending", "accepted", "rejected", "none"}

\* a loop that never leaves by its counter
loopContinues_always(n, max) == TRUE

\* while (attempts < maxAttempts)
loopContinues(n, max) == n < max

\* the poll touches nothing of the pages
PollOnly ==
  UNCHANGED << page, streamVars, connVars, interactVars, flowVars, animVars,
               parserVars, submitVars, windowVars, chunkVars, viewVars, reactVars >>

\* the test of the while loop with n attempts made: the next status request
\* is sent from inside the loop, or the loop is left and the final request
\* is sent
LoopTest(n) ==
  /\ pollAttempts' = n
  /\ statusRequests' = statusRequests + 1
  /\ pollPc' = IF loopContinues(n, maxAttempts) THEN "requesting" ELSE "final"

\* pollPartnershipStatus(onStatusChange, maxAttempts) is called
PollCall ==
  /\ pollPc = "idle"
  /\ LoopTest(0)
  /\ UNCHANGED << maxAttempts, onStatusChange, statusChanges, pollStatus >>
  /\ PollOnly

\* await this.getPartnershipStatus() inside the loop resolves: the callback
\* is called if there is one, and what it throws leaves the function, so
\* that the call rejects; otherwise a status other than pending is
\* returned, and with pending the 5 s wait starts
StatusReceived(status, thrown) ==
  /\ pollPc = "requesting"
  /\ thrown => onStatusChange
  /\ pollStatus' = status
  /\ statusChanges' = IF onStatusChange THEN statusChanges + 1 ELSE statusChanges
  /\ pollPc' = IF thrown THEN "failed"
             ELSE IF status # "pending" THEN "returned" ELSE "waiting"
  /\ UNCHANGED << maxAttempts, onStatusChange, pollAttempts, statusRequests >>
  /\ PollOnly

\* the 5 s timeout fires: attempts++ and the loop test
WaitOver ==
  /\ pollPc = "waiting"
  /\ LoopTest(pollAttempts + 1)
  /\ UNCHANGED << maxAttempts, onStatusChange, statusChanges, pollStatus >>
  /\ PollOnly

\* return this.getPartnershipStatus() after the loop resolves
FinalReceived(status) ==
  /\ pollPc = "final"
  /\ pollStatus' = status
  /\ pollPc' = "returned"
  /\ UNCHANGED << maxAttempts, onStatusChange, pollAttempts, statusRequests,
                  statusChanges >>
  /\ PollOnly

\* a status request rejects: the call rejects with its error
StatusFailed ==
  /\ pollPc \in {"requesting", "final"}
  /\ pollPc' = "failed"
  /\ UNCHANGED << maxAttempts, onStatusChange, pollAttempts, statusRequests,
                  statusChanges, pollStatus >>
  /\ PollOnly

(***************************************************************************)
(* Specification of one pollPartnershipStatus call, with or without a      *)
(* callback that returns or throws, whose status requests all settle and   *)
(* whose timeouts fire.                                                    *)
(***************************************************************************)
InitPoll ==
  /\ page = "sdk"
  /\ MountedRest(0)
  /\ ChunkInit(<< >>)
  /\ ViewInit
  /\ pollPc = "idle"
  /\ maxAttempts \in 0..MaxPollAttempts
  /\ onStatusChange \in BOOLEAN
  /\ pollAttempts = 0
  /\ statusRequests = 0
  /\ statusChanges = 0
  /\ pollStatus = None

\* the status request that is pending settles
RequestSettles ==
  \/ \E status \in PartnershipStatuses, thrown \in BOOLEAN : StatusReceived(status, thrown)
  \/ \E status \in PartnershipStatuses : FinalReceived(status)
  \/ StatusFailed

NextPoll ==
  \/ PollCall
  \/ \E status \in PartnershipStatuses, thrown \in BOOLEAN : StatusReceived(status, thrown)
  \/ WaitOver
  \/ \E status \in PartnershipStatuses : FinalReceived(status)
  \/ StatusFailed

SpecPoll ==
  /\ InitPoll
  /\ [][NextPoll]_vars
  /\ WF_vars(PollCall)
  /\ WF_vars(RequestSettles)
  /\ WF_vars(WaitOver)

\* the call is over: it returned a status, or it rejected with the error of
\* a status request or with what the callback threw
PollOver == pollPc \in {"returned", "failed"}

\* a poll inside the loop is answered with a decision: a status other than
\* pending
DecisionReported ==
  \E status \in PartnershipStatuses \ {"pending"}, thrown \in BOOLEAN :
    StatusReceived(status, thrown)

\* C38: every call ends.  A poll inside the loop either rejects, and the
\* call rejects with it, or is answered: then the callback, if there is
\* one, is called once, and the call rejects if the callback throws,
\* returns the status at once if it is not pending, and waits for the next
\* poll otherwise.  The final request is sent only after maxAttempts polls
\* that all reported pending, and the call ends with its result or its
\* rejection; never are more than maxAttempts + 1 status requests sent; the
\* callback is called at no other time.
C38_PollTerminates ==
  /\ <>PollOver
  /\ [](statusRequests <= maxAttempts + 1)
  /\ [](pollPc = "final" =>
          (pollAttempts = maxAttempts /\ statusRequests = maxAttempts + 1))
  /\ [][ pollPc = "requesting" =>
           \/ /\ pollPc' = "failed"
              /\ UNCHANGED << statusChanges, pollStatus >>
           \/ /\ pollStatus' \in PartnershipStatuses
              /\ statusChanges' = statusChanges + (IF onStatusChange THEN 1 ELSE 0)
              /\ \/ onStatusChange /\ pollPc' = "failed"
                 \/ pollStatus' # "pending" /\ pollPc' = "returned"
                 \/ pollStatus' = "pending" /\ pollPc' = "waiting" ]_vars
  /\ [][ pollPc # "requesting" => statusChanges' = statusChanges ]_vars
  /\ [][ pollPc = "final" => pollPc' \in {"returned", "failed"} ]_vars

\* a call with a callback returned the result of the final request after
\* maxAttempts polls that all reported pending
C38_Witness ==
  /\ pollPc = "returned"
  /\ onStatusChange
  /\ maxAttempts = MaxPollAttempts
  /\ pollAttempts = maxAttempts
  /\ statusRequests = maxAttempts + 1
  /\ statusChanges = maxAttempts

\* C38 as claimed: the call returns as soon as a poll reports a status other
\* than pending.
C38_ReturnsOnDecision == [][ DecisionReported => pollPc' = "returned" ]_vars

====
